---- MODULE Spec2Model ----
(***************************************************************************)
(* A model of pyvsf's core: the work partitioner (partition.hpp), the bin  *)
(* search and the streaming accumulators (accumulators.hpp), and the pair  *)
(* kernel and parallel driver (vsf.cpp).                                   *)
(*                                                                         *)
(* Real numbers are modelled exactly: coordinates, values and edges are    *)
(* integers and the accumulators' doubles are rationals <<num, den>>, so   *)
(* the properties checked are the exact-arithmetic ones.                   *)
(***************************************************************************)
EXTENDS Integers, Sequences, FiniteSets, TLC

VARIABLES
  \* ---- partition.hpp: one calc_chunk_slice call sequence (SpecSlice)
  array_len,        \* calc_chunk_slice's array_len argument
  num_chunks,       \* calc_chunk_slice's num_chunks argument
  chunk_index,      \* the chunk_index of the latest call (-1: none yet)
  slc,              \* SlcStruct returned by the latest call
  prev_slc,         \* SlcStruct returned by the call before it
  \* ---- partition.hpp: a TaskIt over a partition strategy (SpecPart)
  partition_strat_, \* TaskIt::partition_strat_ (Auto- or CrossSFPartitionStrat)
  index_stop_1D_,   \* TaskIt::index_stop_1D_
  next_index_1D_,   \* TaskIt::next_index_1D_
  next_index_2D_,   \* TaskIt::next_index_2D_
  tasks,            \* the StatTasks next() has returned, in order
  visits,           \* visits[<<a, b>>]: times the kernel enumerated the pair
  \* ---- accumulators.hpp: one identify_bin_index call (SpecBin)
  bin_edges,        \* identify_bin_index's bin_edges, nbins + 1 of them
  x,                \* identify_bin_index's x
  bin_ind,          \* the index identify_bin_index returned (-1: no call yet)
  \* ---- accumulators.hpp: one stream of values, chunked and merged (SpecAccum)
  acc_kind,         \* the accumulators' template arguments [family, Order, weighted]
  whole,            \* the accumulator every value was added to
  merged,           \* the accumulator the closed chunks were merged into, in order
  cur,              \* the accumulator of the chunk being filled
  entries,          \* the values added so far, in order
  chunk_sizes,      \* the sizes of the closed chunks, in order
  whole_w,          \* a weighted accumulator given (value, 1) for every value
  merged_w,         \* the weighted counterpart of merged
  cur_w,            \* the weighted counterpart of cur
  \* ---- vsf.cpp: the squared bin edges of calc_vsf_props (SpecSqr)
  sqr_bin_edges,    \* calc_vsf_props's bin_edges, as doubles
  sqr_dist_sqr_bin_edges_vec, \* dist_sqr_bin_edges_vec (<<>>: not built yet)
  sqr_d,            \* a distance, as a double
  sqr_bins,         \* [d, d_sqr]: the bin of d on bin_edges and of d*d on the squares
  \* ---- vsf.cpp: calc_vsf_props_parallel_ called on its own (SpecPrefilled)
  par_initial,      \* the accumulators argument as the caller passed it
  \* ---- accumulators.hpp: accumulator collections (SpecColl)
  coll_X,           \* a collection, built by add_entry and consolidate_with_other
  coll_Y,           \* a second collection of the same shape, merged into coll_X
  coll_P,           \* a collection of the same shape that starts out purged
  coll_snap,        \* coll_X as it was before the latest call
  coll_op,          \* the latest call made with coll_P ("none": not yet)
  out_i64_vals,     \* the int64_t buffer given to copy_vals / import_vals
  out_flt_vals,     \* the double buffer given to copy_vals / import_vals
  coll_n_entries,   \* add_entry calls made so far
  coll_weights,     \* the weights passed to add_entry so far
  \* ---- compound_accumulator.hpp: one CompoundAccumCollection (SpecCompound)
  accum_collec_tuple_, \* the member collections, in declared order
  cmp_op,           \* the latest call other than one that added entries ("none": not yet)
  cmp_fatal,        \* the call ended in error(): the process has exited
  cmp_props,        \* what flt_val_props() / i64_val_props() returned
  cmp_out_i64_vals, \* the int64_t buffer given to copy_vals
  cmp_out_flt_vals, \* the double buffer given to copy_vals
  cmp_n_entries,    \* entries taken so far, by add_entry or from another object
  \* ---- partition.hpp: one call of a create function (SpecCreate)
  mk_args,          \* the arguments of the call (<<>>: no call yet)
  mk_rslt,          \* what it returned: [err, strat]
  \* ---- partition.hpp: one TaskItFactory and its TaskIts (SpecFactory)
  fac_args,         \* the arguments of the constructor
  fac_factory,      \* the TaskItFactory, once constructed
  fac_its,          \* per proc_id: the TaskIt built and what it has yielded
  fac_fatal,        \* a call ended in error(): the process has exited
  \* ---- vsf.cpp: one call of calc_vsf_props (Spec)
  drv_call,         \* the arguments of the call, the build and the environment
  drv_pc,           \* "call", "parallel" (inside the parallel region), "done"
  drv_edges,        \* dist_sqr_bin_edges_vec
  drv_accumulators, \* accumulators of calc_vsf_props
  drv_factory,      \* factory of calc_vsf_props_parallel_
  drv_partition_dest, \* partition_dest of calc_vsf_props_parallel_
  drv_workers,      \* per proc_id: phase, local_accums and the TaskIt
  drv_returned,     \* "none", "true", "false", "fatal" (error()), "crash"
  drv_ub,           \* the call read through a null pointer or out of bounds
  drv_out_flt_vals, \* the caller's out_flt_vals
  drv_out_i64_vals  \* the caller's out_i64_vals

slice_vars == <<array_len, num_chunks, chunk_index, slc, prev_slc>>
part_vars == <<partition_strat_, index_stop_1D_, next_index_1D_,
               next_index_2D_, tasks, visits>>
bin_vars == <<bin_edges, x, bin_ind>>
acc_vars == <<acc_kind, whole, merged, cur, entries, chunk_sizes,
              whole_w, merged_w, cur_w>>
coll_vars == <<coll_X, coll_Y, coll_P, coll_snap, coll_op, out_i64_vals,
               out_flt_vals, coll_n_entries, coll_weights>>
drv_vars == <<drv_call, drv_pc, drv_edges, drv_accumulators, drv_factory,
              drv_partition_dest, drv_workers, drv_returned, drv_ub,
              drv_out_flt_vals, drv_out_i64_vals>>
cmp_vars == <<accum_collec_tuple_, cmp_op, cmp_fatal, cmp_props,
              cmp_out_i64_vals, cmp_out_flt_vals, cmp_n_entries>>
mk_vars == <<mk_args, mk_rslt>>
fac_vars == <<fac_args, fac_factory, fac_its, fac_fatal>>
sqr_vars == <<sqr_bin_edges, sqr_dist_sqr_bin_edges_vec, sqr_d, sqr_bins>>
par_vars == <<par_initial>>
vars == <<slice_vars, part_vars, bin_vars, acc_vars, coll_vars, drv_vars, cmp_vars,
          mk_vars, fac_vars, sqr_vars, par_vars>>

\* the variables a specification leaves alone
not_slice_vars == <<part_vars, bin_vars, acc_vars, coll_vars, drv_vars, cmp_vars, mk_vars, fac_vars, sqr_vars, par_vars>>
not_part_vars == <<slice_vars, bin_vars, acc_vars, coll_vars, drv_vars, cmp_vars, mk_vars, fac_vars, sqr_vars, par_vars>>
not_bin_vars == <<slice_vars, part_vars, acc_vars, coll_vars, drv_vars, cmp_vars, mk_vars, fac_vars, sqr_vars, par_vars>>
not_acc_vars == <<slice_vars, part_vars, bin_vars, coll_vars, drv_vars, cmp_vars, mk_vars, fac_vars, sqr_vars, par_vars>>
not_drv_vars == <<slice_vars, part_vars, bin_vars, acc_vars, coll_vars, cmp_vars, mk_vars, fac_vars, sqr_vars, par_vars>>
not_coll_vars == <<slice_vars, part_vars, bin_vars, acc_vars, drv_vars, cmp_vars, mk_vars, fac_vars, sqr_vars, par_vars>>
not_cmp_vars == <<slice_vars, part_vars, bin_vars, acc_vars, coll_vars, drv_vars, mk_vars, fac_vars, sqr_vars, par_vars>>
not_mk_vars == <<slice_vars, part_vars, bin_vars, acc_vars, coll_vars, drv_vars, cmp_vars, fac_vars, sqr_vars, par_vars>>
not_fac_vars == <<slice_vars, part_vars, bin_vars, acc_vars, coll_vars, drv_vars, cmp_vars, mk_vars, sqr_vars, par_vars>>
not_sqr_vars == <<slice_vars, part_vars, bin_vars, acc_vars, coll_vars, drv_vars, cmp_vars, mk_vars, fac_vars, par_vars>>

\* ------------------------------------------------------------------------
\* Bounds of the model
\* ------------------------------------------------------------------------
MaxLen == 8        \* largest array_len given to calc_chunk_slice
MaxPoints == 7     \* largest number of points of a point set
MaxPointsB == 3    \* largest number of points of the second set (cross)
MaxBins == 2       \* largest number of bins of an edge array
MaxEdge == 4       \* bin edges are drawn from -1 .. MaxEdge
MaxEntries == 5    \* largest number of values added to an accumulator
MaxCollEntries == 3   \* largest number of add_entry calls on collections
MaxDrvPoints == 5     \* largest points_a.n_points given to calc_vsf_props
MaxDrvPointsB == 2    \* largest points_b.n_points given to calc_vsf_props
MaxUndefinedValue == 3  \* largest value a cell holds after an undefined read
LargeDrvPoints == 32  \* n_points of the two sets of a problem that is not small
MaxCreatePoints == 12 \* largest small n_points given to a create function
MaxCreateNproc == 4   \* largest small nproc given to a create function
MaxCreateCrossPoints == 6 \* largest small n_points_A, n_points_B of a cross create
MaxFacNproc == 3      \* largest nproc given to a TaskItFactory
MaxFacPoints == 9     \* largest n_points given to a TaskItFactory
MaxFacPointsOther == 3 \* largest n_points_other given to a TaskItFactory
MaxSqrBins == 2       \* largest nbins of the bin edges that are squared
MaxInitialEntries == 2 \* largest number of entries of a prefilled accumulator

Min(a, b) == IF a < b THEN a ELSE b
Max(a, b) == IF a < b THEN b ELSE a

\* ------------------------------------------------------------------------
\* partition.hpp: calc_chunk_slice
\* ------------------------------------------------------------------------
NoSlc == [err |-> FALSE, start |-> 0, stop |-> 0]

\* the lambda calc_chunk_size, with the < of the remainder test turned to <=
calc_chunk_size_le(cur_chunk_index, len, nchunks) ==
  (len \div nchunks) + (IF cur_chunk_index <= len % nchunks THEN 1 ELSE 0)

\* the lambda calc_chunk_size
calc_chunk_size(cur_chunk_index, len, nchunks) ==
  (len \div nchunks) + (IF cur_chunk_index < len % nchunks THEN 1 ELSE 0)

\* the for loop of calc_chunk_slice: cur_chunk_index runs 0 .. target
RECURSIVE chunk_slice_loop(_, _, _, _, _, _)
chunk_slice_loop(cur_chunk_index, target, len, nchunks, start_index, stop_index) ==
  IF cur_chunk_index > target
  THEN [err |-> FALSE, start |-> start_index, stop |-> stop_index]
  ELSE chunk_slice_loop(cur_chunk_index + 1, target, len, nchunks,
                        stop_index,
                        stop_index + calc_chunk_size(cur_chunk_index, len, nchunks))

\* err is the fatal error("something is very wrong")
calc_chunk_slice(index, len, nchunks) ==
  IF (len < nchunks) \/ (nchunks <= index)
  THEN [err |-> TRUE, start |-> 0, stop |-> 0]
  ELSE chunk_slice_loop(0, index, len, nchunks, 0, 0)

\* ------------------------------------------------------------------------
\* partition.hpp: StatTask, AutoSFPartitionStrat, CrossSFPartitionStrat
\* ------------------------------------------------------------------------
StatTask(start_A, stop_A, start_B, stop_B, err) ==
  [start_A |-> start_A, stop_A |-> stop_A,
   start_B |-> start_B, stop_B |-> stop_B, err |-> err]

ErrTask == StatTask(0, 0, 0, 0, TRUE)

num_dist_array_chunks_auto(segments) ==
  LET num_triangles == segments
      num_rect == ((segments - 1) * segments) \div 2
  IN num_rect + num_triangles

AutoStrat(n_points, num_segments) ==
  [kind |-> "auto", n_points |-> n_points, num_segments |-> num_segments,
   n_points_B |-> 0, num_segments_B |-> 0]

CrossStrat(n_points_A, num_segments_A, n_points_B, num_segments_B) ==
  [kind |-> "cross", n_points |-> n_points_A, num_segments |-> num_segments_A,
   n_points_B |-> n_points_B, num_segments_B |-> num_segments_B]

\* AutoSFPartitionStrat::build_StatTask with the rectangle's A range not
\* shifted by one
Auto_build_StatTask_noshift(strat, index_2D) ==
  IF strat.n_points <= 1 THEN ErrTask
  ELSE
    LET n_dist_matrix_elements == strat.n_points - 1
        ax0 == calc_chunk_slice(index_2D[1], n_dist_matrix_elements,
                                strat.num_segments)
        ax1 == calc_chunk_slice(index_2D[2], n_dist_matrix_elements,
                                strat.num_segments)
    IN IF index_2D[1] = index_2D[2]
       THEN IF ax0.err THEN ErrTask
            ELSE StatTask(ax0.start, ax0.stop + 1, 0, 0, FALSE)
       ELSE IF ax0.err \/ ax1.err THEN ErrTask
            ELSE StatTask(ax1.start, ax1.stop, ax0.start, ax0.stop, FALSE)

Auto_build_StatTask(strat, index_2D) ==
  IF strat.n_points <= 1 THEN ErrTask
  ELSE
    LET n_dist_matrix_elements == strat.n_points - 1
        ax0 == calc_chunk_slice(index_2D[1], n_dist_matrix_elements,
                                strat.num_segments)
        ax1 == calc_chunk_slice(index_2D[2], n_dist_matrix_elements,
                                strat.num_segments)
    IN IF index_2D[1] = index_2D[2]
       THEN IF ax0.err THEN ErrTask
            ELSE StatTask(ax0.start, ax0.stop + 1, 0, 0, FALSE)
       ELSE IF ax0.err \/ ax1.err THEN ErrTask
            ELSE StatTask(ax1.start + 1, ax1.stop + 1, ax0.start, ax0.stop, FALSE)

\* AutoSFPartitionStrat::increment2D_index starting every row at column 0
Auto_increment2D_index_from_zero(strat, index) ==
  IF index[2] + 1 = strat.num_segments
  THEN <<index[1] + 1, 0>>
  ELSE <<index[1], index[2] + 1>>

\* AutoSFPartitionStrat::increment2D_index
Auto_increment2D_index(strat, index) ==
  IF index[2] + 1 = strat.num_segments
  THEN <<index[1] + 1, index[1] + 1>>
  ELSE <<index[1], index[2] + 1>>

\* CrossSFPartitionStrat::build_StatTask slicing the B axis with A's length
Cross_build_StatTask_lenA(strat, index_2D) ==
  IF (index_2D[1] >= strat.num_segments) \/ (index_2D[2] >= strat.num_segments_B)
  THEN ErrTask
  ELSE
    LET slice_A == calc_chunk_slice(index_2D[1], strat.n_points, strat.num_segments)
        slice_B == calc_chunk_slice(index_2D[2], strat.n_points,
                                    strat.num_segments_B)
    IN IF slice_A.err \/ slice_B.err THEN ErrTask
       ELSE StatTask(slice_A.start, slice_A.stop, slice_B.start, slice_B.stop, FALSE)

Cross_build_StatTask(strat, index_2D) ==
  IF (index_2D[1] >= strat.num_segments) \/ (index_2D[2] >= strat.num_segments_B)
  THEN ErrTask
  ELSE
    LET slice_A == calc_chunk_slice(index_2D[1], strat.n_points, strat.num_segments)
        slice_B == calc_chunk_slice(index_2D[2], strat.n_points_B,
                                    strat.num_segments_B)
    IN IF slice_A.err \/ slice_B.err THEN ErrTask
       ELSE StatTask(slice_A.start, slice_A.stop, slice_B.start, slice_B.stop, FALSE)

Cross_increment2D_index(strat, index) ==
  IF index[2] + 1 = strat.num_segments_B
  THEN <<index[1] + 1, 0>>
  ELSE <<index[1], index[2] + 1>>

\* std::visit over the partition_variant
n_partitions(strat) ==
  IF strat.kind = "auto" THEN num_dist_array_chunks_auto(strat.num_segments)
  ELSE strat.num_segments * strat.num_segments_B

build_StatTask(strat, index_2D) ==
  IF strat.kind = "auto" THEN Auto_build_StatTask(strat, index_2D)
  ELSE Cross_build_StatTask(strat, index_2D)

increment2D_index(strat, index) ==
  IF strat.kind = "auto" THEN Auto_increment2D_index(strat, index)
  ELSE Cross_increment2D_index(strat, index)

\* ------------------------------------------------------------------------
\* partition.hpp: the create factories, TaskIt and TaskItFactory as values.
\* A result with err = TRUE stands for the call ending in error(): the
\* process prints a message and exits.
\* ------------------------------------------------------------------------
\* the loop of AutoSFPartitionStrat::create with num_chunks > 3 * nproc
\* as its test
RECURSIVE Auto_num_segments_loop_strict(_, _, _)
Auto_num_segments_loop_strict(cur_num_segments, max_segments, nproc) ==
  IF cur_num_segments >= max_segments THEN max_segments
  ELSE IF num_dist_array_chunks_auto(cur_num_segments) > 3 * nproc
       THEN cur_num_segments
       ELSE Auto_num_segments_loop_strict(cur_num_segments + 1, max_segments, nproc)

\* the for (cur_num_segments = 2;; cur_num_segments++) loop of
\* AutoSFPartitionStrat::create
RECURSIVE Auto_num_segments_loop(_, _, _)
Auto_num_segments_loop(cur_num_segments, max_segments, nproc) ==
  IF cur_num_segments >= max_segments THEN max_segments
  ELSE IF num_dist_array_chunks_auto(cur_num_segments) >= 3 * nproc
       THEN cur_num_segments
       ELSE Auto_num_segments_loop(cur_num_segments + 1, max_segments, nproc)

\* AutoSFPartitionStrat::create with max_segments = n_points / 2
Auto_create_half(nproc, n_points, skip_small_prob_check) ==
  IF nproc = 0 \/ n_points <= 1 \/ nproc > 60
  THEN [err |-> TRUE, strat |-> AutoStrat(n_points, 0)]
  ELSE
    LET max_segments == IF n_points <= 4 THEN 1 ELSE n_points \div 2
        is_small_problem == (~skip_small_prob_check) /\ (n_points <= 1000)
    IN IF is_small_problem \/ (nproc = 1) \/ (max_segments = 1)
       THEN [err |-> FALSE, strat |-> AutoStrat(n_points, 1)]
       ELSE LET num_segments == Auto_num_segments_loop(2, max_segments, nproc)
            IN [err |-> (num_segments * 2 + 1) > n_points,
                strat |-> AutoStrat(n_points, num_segments)]

\* AutoSFPartitionStrat::create
Auto_create(nproc, n_points, skip_small_prob_check) ==
  IF nproc = 0 \/ n_points <= 1 \/ nproc > 60
  THEN [err |-> TRUE, strat |-> AutoStrat(n_points, 0)]
  ELSE
    LET max_segments == IF n_points <= 4 THEN 1 ELSE (n_points - 1) \div 2
        is_small_problem == (~skip_small_prob_check) /\ (n_points <= 1000)
    IN IF is_small_problem \/ (nproc = 1) \/ (max_segments = 1)
       THEN [err |-> FALSE, strat |-> AutoStrat(n_points, 1)]
       ELSE LET num_segments == Auto_num_segments_loop(2, max_segments, nproc)
            IN [err |-> (num_segments * 2 + 1) > n_points,
                strat |-> AutoStrat(n_points, num_segments)]

\* CrossSFPartitionStrat::create with a tie of the two axes going to B
Cross_create_tie_B(nproc, n_points_A, n_points_B, skip_small_problem_check) ==
  IF nproc = 0 THEN [err |-> TRUE, strat |-> CrossStrat(n_points_A, 0, n_points_B, 0)]
  ELSE
    LET exceed_small_npairs ==
          \/ (n_points_A * n_points_B) > 1000
          \/ (n_points_A >= 1000) /\ (n_points_B > 0)
          \/ (n_points_B >= 1000) /\ (n_points_A > 0)
        is_small_problem == (~exceed_small_npairs) /\ (~skip_small_problem_check)
        builder(partition_A) ==
          CrossStrat(n_points_A, IF partition_A THEN nproc ELSE 1,
                     n_points_B, IF partition_A THEN 1 ELSE nproc)
        smaller_than_both == (nproc <= n_points_A) /\ (nproc <= n_points_B)
    IN [err |-> FALSE,
        strat |->
          IF is_small_problem \/ ((nproc > n_points_A) /\ (nproc > n_points_B))
          THEN CrossStrat(n_points_A, 1, n_points_B, 1)
          ELSE IF (nproc <= n_points_A) /\ ((n_points_A % nproc) = 0) THEN builder(TRUE)
          ELSE IF (nproc <= n_points_B) /\ ((n_points_B % nproc) = 0) THEN builder(FALSE)
          ELSE IF smaller_than_both /\ (n_points_B >= n_points_A) THEN builder(FALSE)
          ELSE IF smaller_than_both THEN builder(TRUE)
          ELSE IF nproc < n_points_B THEN builder(FALSE)
          ELSE builder(TRUE)]

\* CrossSFPartitionStrat::create
Cross_create(nproc, n_points_A, n_points_B, skip_small_problem_check) ==
  IF nproc = 0 THEN [err |-> TRUE, strat |-> CrossStrat(n_points_A, 0, n_points_B, 0)]
  ELSE
    LET exceed_small_npairs ==
          \/ (n_points_A * n_points_B) > 1000
          \/ (n_points_A >= 1000) /\ (n_points_B > 0)
          \/ (n_points_B >= 1000) /\ (n_points_A > 0)
        is_small_problem == (~exceed_small_npairs) /\ (~skip_small_problem_check)
        builder(partition_A) ==
          CrossStrat(n_points_A, IF partition_A THEN nproc ELSE 1,
                     n_points_B, IF partition_A THEN 1 ELSE nproc)
        smaller_than_both == (nproc <= n_points_A) /\ (nproc <= n_points_B)
    IN [err |-> FALSE,
        strat |->
          IF is_small_problem \/ ((nproc > n_points_A) /\ (nproc > n_points_B))
          THEN CrossStrat(n_points_A, 1, n_points_B, 1)
          ELSE IF (nproc <= n_points_A) /\ ((n_points_A % nproc) = 0) THEN builder(TRUE)
          ELSE IF (nproc <= n_points_B) /\ ((n_points_B % nproc) = 0) THEN builder(FALSE)
          ELSE IF smaller_than_both /\ (n_points_B > n_points_A) THEN builder(FALSE)
          ELSE IF smaller_than_both THEN builder(TRUE)
          ELSE IF nproc < n_points_B THEN builder(FALSE)
          ELSE builder(TRUE)]

\* TaskItFactory::build_strat_
build_strat_(nproc, n_points, n_points_other, skip_small_prob_check) ==
  IF n_points_other = 0 THEN Auto_create(nproc, n_points, skip_small_prob_check)
  ELSE Cross_create(nproc, n_points, n_points_other, skip_small_prob_check)

\* TaskItFactory's constructor
TaskItFactory(nproc, n_points, n_points_other, skip_small_prob_check) ==
  LET made == build_strat_(nproc, n_points, n_points_other, skip_small_prob_check)
  IN [err |-> made.err, nproc_ |-> nproc, partition_strat_ |-> made.strat]

\* TaskItFactory::effective_nproc
effective_nproc(factory) == Min(factory.nproc_, n_partitions(factory.partition_strat_))

\* the while (next_index_1D_ < index_start_1D) increment_index_() loop of
\* TaskIt's constructor
RECURSIVE TaskIt_advance(_, _, _, _)
TaskIt_advance(strat, index_1D, index_2D, index_start_1D) ==
  IF index_1D >= index_start_1D
  THEN [next_index_1D_ |-> index_1D, next_index_2D_ |-> index_2D]
  ELSE TaskIt_advance(strat, index_1D + 1, increment2D_index(strat, index_2D),
                      index_start_1D)

\* TaskIt's constructor
TaskIt(index_start_1D, index_stop_1D, strat) ==
  LET at == TaskIt_advance(strat, 0, <<0, 0>>, index_start_1D)
  IN [err |-> index_stop_1D <= index_start_1D,
      index_stop_1D_ |-> index_stop_1D,
      partition_strat_ |-> strat,
      next_index_1D_ |-> at.next_index_1D_,
      next_index_2D_ |-> at.next_index_2D_]

\* TaskItFactory::build_TaskIt
build_TaskIt(factory, proc_id) ==
  LET slice == calc_chunk_slice(proc_id, n_partitions(factory.partition_strat_),
                                effective_nproc(factory))
  IN IF proc_id >= factory.nproc_ \/ slice.err
     THEN [TaskIt(0, 1, factory.partition_strat_) EXCEPT !.err = TRUE]
     ELSE TaskIt(slice.start, slice.stop, factory.partition_strat_)

\* TaskIt::has_next
TaskIt_has_next(task_iter) == task_iter.next_index_1D_ < task_iter.index_stop_1D_

\* TaskIt::next: the task returned and the iterator after the call
TaskIt_next_task(task_iter) ==
  build_StatTask(task_iter.partition_strat_, task_iter.next_index_2D_)

TaskIt_after_next(task_iter) ==
  [task_iter EXCEPT
     !.next_index_1D_ = @ + 1,
     !.next_index_2D_ = increment2D_index(task_iter.partition_strat_, @)]

\* ------------------------------------------------------------------------
\* vsf.cpp: the pairs process_TaskIt_ / process_data enumerate for one task
\* ------------------------------------------------------------------------
\* process_data's two loops: i_a over [0, n_points_a), i_b over
\* [i_b_start, n_points_b), in the order the loops visit them
RECURSIVE pair_loop(_, _, _, _, _)
pair_loop(i_a, i_b, n_points_a, n_points_b, duplicated_points) ==
  IF i_a >= n_points_a THEN <<>>
  ELSE IF i_b >= n_points_b
       THEN pair_loop(i_a + 1, IF duplicated_points THEN i_a + 2 ELSE 0,
                      n_points_a, n_points_b, duplicated_points)
       ELSE <<<<i_a, i_b>>>> \o
            pair_loop(i_a, i_b + 1, n_points_a, n_points_b, duplicated_points)

process_data_pairs(n_points_a, n_points_b, duplicated_points) ==
  pair_loop(0, IF duplicated_points THEN 1 ELSE 0, n_points_a, n_points_b,
            duplicated_points)

\* process_TaskIt_'s body for one task: the point indices of each pair the
\* kernel visits, as indices into points_a and points_b
task_pairs(stat_task, duplicated_points) ==
  LET n_a == stat_task.stop_A - stat_task.start_A
      n_b == stat_task.stop_B - stat_task.start_B
      triangle == duplicated_points
                  /\ (stat_task.start_B = stat_task.stop_B)
                  /\ (stat_task.stop_B = 0)
      local == IF triangle THEN process_data_pairs(n_a, n_a, TRUE)
               ELSE process_data_pairs(n_a, n_b, FALSE)
  IN [k \in 1..Len(local) |->
        <<stat_task.start_A + local[k][1],
          (IF triangle THEN stat_task.start_A ELSE stat_task.start_B)
            + local[k][2]>>]

SeqToSet(s) == {s[k] : k \in 1..Len(s)}

\* ------------------------------------------------------------------------
\* accumulators.hpp: identify_bin_index
\* ------------------------------------------------------------------------
\* std::lower_bound over edges (a sequence, so C's edges[i] is edges[i + 1]):
\* the distance from the start to the first element that is not less than
\* value, Len(edges) when there is none
RECURSIVE lower_bound(_, _, _)
lower_bound(edges, value, first) ==
  IF first >= Len(edges) THEN Len(edges)
  ELSE IF ~(edges[first + 1] < value) THEN first
       ELSE lower_bound(edges, value, first + 1)

identify_bin_index(value, edges, nbins) ==
  LET index_p_1 == lower_bound(edges, value, 0)
  IN IF index_p_1 = 0 \/ index_p_1 = nbins + 1 THEN nbins
     ELSE index_p_1 - 1

\* strictly increasing edge arrays of n + 1 edges drawn from lo .. hi
EdgeArrays(n, lo, hi) ==
  {e \in [1..(n + 1) -> lo..hi] : \A i \in 1..n : e[i] < e[i + 1]}

\* ------------------------------------------------------------------------
\* Exact arithmetic: a double is modelled by the rational <<num, den>> in
\* lowest terms with den > 0
\* ------------------------------------------------------------------------
Abs(i) == IF i < 0 THEN -i ELSE i

RECURSIVE GCD(_, _)
GCD(a, b) == IF b = 0 THEN a ELSE GCD(b, a % b)

RNorm(n, d) ==
  LET g == GCD(Abs(n), Abs(d))
      sgn == IF d < 0 THEN -1 ELSE 1
  IN <<(sgn * n) \div g, (sgn * d) \div g>>

RInt(i) == <<i, 1>>
RZero == RInt(0)
RAdd(a, b) == RNorm(a[1] * b[2] + b[1] * a[2], a[2] * b[2])
RSub(a, b) == RNorm(a[1] * b[2] - b[1] * a[2], a[2] * b[2])
RMul(a, b) == RNorm(a[1] * b[1], a[2] * b[2])
RDiv(a, b) == RNorm(a[1] * b[2], a[2] * b[1])
RLess(a, b) == a[1] * b[2] < b[1] * a[2]

\* ------------------------------------------------------------------------
\* accumulators.hpp: CentralMomentAccum<Order, CountT> and
\* OriginMomentAccum<Order, CountT>.  An accumulator kind is
\* [family, Order, weighted]; weighted stands for CountT = double, and then
\* count (the weight sum) is a rational, else it is an integer.
\* ------------------------------------------------------------------------
AccumKind(family, Order, weighted) ==
  [family |-> family, Order |-> Order, weighted |-> weighted]

\* the default constructor: count(0) and every moment_accums entry 0
NewAccum(kind) ==
  [count |-> IF kind.weighted THEN RZero ELSE 0,
   moment_accums |-> [i \in 1..kind.Order |-> RZero]]

\* count as a double, and a double stored back into count
CountAsDouble(kind, count) == IF kind.weighted THEN count ELSE RInt(count)
DoubleAsCount(kind, r) == IF kind.weighted THEN r ELSE r[1] \div r[2]

\* moment_accums[LUT::...] of an accumulator (0 above its Order: never read)
Moment(acc, i) == IF i <= Len(acc.moment_accums) THEN acc.moment_accums[i] ELSE RZero

\* CentralMomentAccum::add_entry(double val) with cur_M2 updated before
\* cur_M3, which then reads the new cur_M2
Central_add_entry_M2_first(kind, acc, val) ==
  LET count == acc.count + 1
      val_minus_last_mean == RSub(val, Moment(acc, 1))
      delta == val_minus_last_mean
      delta_div_n == RDiv(delta, RInt(count))
      mean == RAdd(Moment(acc, 1), delta_div_n)
      val_minus_cur_mean == RSub(val, mean)
      delta2_nm1_div_n == RMul(val_minus_last_mean, val_minus_cur_mean)
      cur_M2 == RAdd(Moment(acc, 2), delta2_nm1_div_n)
      cur_M3 == RAdd(Moment(acc, 3),
                     RSub(RMul(RMul(delta2_nm1_div_n, delta_div_n), RInt(count - 2)),
                          RMul(RMul(RInt(3), cur_M2), delta_div_n)))
  IN [count |-> count,
      moment_accums |-> [i \in 1..kind.Order |->
                           IF i = 1 THEN mean ELSE IF i = 2 THEN cur_M2 ELSE cur_M3]]

\* CentralMomentAccum::add_entry(double val), CountT = int64_t
Central_add_entry(kind, acc, val) ==
  LET count == acc.count + 1
      val_minus_last_mean == RSub(val, Moment(acc, 1))
      delta == val_minus_last_mean
      delta_div_n == RDiv(delta, RInt(count))
      mean == RAdd(Moment(acc, 1), delta_div_n)
      val_minus_cur_mean == RSub(val, mean)
      delta2_nm1_div_n == RMul(val_minus_last_mean, val_minus_cur_mean)
      cur_M3 == RAdd(Moment(acc, 3),
                     RSub(RMul(RMul(delta2_nm1_div_n, delta_div_n), RInt(count - 2)),
                          RMul(RMul(RInt(3), Moment(acc, 2)), delta_div_n)))
      cur_M2 == RAdd(Moment(acc, 2), delta2_nm1_div_n)
  IN [count |-> count,
      moment_accums |-> [i \in 1..kind.Order |->
                           IF i = 1 THEN mean ELSE IF i = 2 THEN cur_M2 ELSE cur_M3]]

\* CentralMomentAccum::add_entry(double val, double weight) with cur_M2
\* updated by weight * delta * delta
Central_add_entry_w_delta_squared(kind, acc, val, weight) ==
  IF ~kind.weighted THEN Central_add_entry(kind, acc, val)
  ELSE
    LET weight_sum == RAdd(acc.count, weight)
        delta == RSub(val, Moment(acc, 1))
        guard == RAdd(weight_sum, IF weight_sum = RZero THEN RInt(1) ELSE RZero)
        mean == RAdd(Moment(acc, 1), RDiv(RMul(delta, weight), guard))
        cur_M2 == RAdd(Moment(acc, 2), RMul(RMul(weight, delta), delta))
    IN [count |-> weight_sum,
        moment_accums |-> [i \in 1..kind.Order |-> IF i = 1 THEN mean ELSE cur_M2]]

\* CentralMomentAccum::add_entry(double val, double weight)
Central_add_entry_w(kind, acc, val, weight) ==
  IF ~kind.weighted THEN Central_add_entry(kind, acc, val)
  ELSE
    LET weight_sum == RAdd(acc.count, weight)
        delta == RSub(val, Moment(acc, 1))
        guard == RAdd(weight_sum, IF weight_sum = RZero THEN RInt(1) ELSE RZero)
        mean == RAdd(Moment(acc, 1), RDiv(RMul(delta, weight), guard))
        val_minus_cur_mean == RSub(val, mean)
        cur_M2 == RAdd(Moment(acc, 2), RMul(RMul(weight, delta), val_minus_cur_mean))
    IN [count |-> weight_sum,
        moment_accums |-> [i \in 1..kind.Order |-> IF i = 1 THEN mean ELSE cur_M2]]

\* consolidate_mean_ (the #if 1 branch)
consolidate_mean_(primary_mean, primary_weight, other_mean, other_weight, tot) ==
  RDiv(RAdd(RMul(primary_weight, primary_mean), RMul(other_weight, other_mean)),
       tot)

\* the general case of CentralMomentAccum::consolidate_with_other
Central_consolidate_general(kind, this, other) ==
  LET this_count == CountAsDouble(kind, this.count)
      other_count == CountAsDouble(kind, other.count)
      totcount == RAdd(this_count, other_count)
      delta == RSub(Moment(other, 1), Moment(this, 1))
      delta2_nprod_div_ntot ==
        RMul(RMul(delta, delta), RDiv(RMul(this_count, other_count), totcount))
      term1 == RMul(delta2_nprod_div_ntot, RSub(other_count, this_count))
      term2 == RMul(RInt(3), RSub(RMul(this_count, Moment(other, 2)),
                                  RMul(other_count, Moment(this, 2))))
      cur_M3 == RAdd(RAdd(Moment(this, 3), Moment(other, 3)),
                     RDiv(RMul(delta, RAdd(term1, term2)), totcount))
      cur_M2 == RAdd(RAdd(Moment(this, 2), Moment(other, 2)), delta2_nprod_div_ntot)
      mean == consolidate_mean_(Moment(this, 1), this_count,
                                Moment(other, 1), other_count, totcount)
  IN [count |-> DoubleAsCount(kind, totcount),
      moment_accums |-> [i \in 1..kind.Order |->
                           IF i = 1 THEN mean ELSE IF i = 2 THEN cur_M2 ELSE cur_M3]]

\* CentralMomentAccum::consolidate_with_other
Central_consolidate_with_other(kind, this, other) ==
  IF CountAsDouble(kind, this.count) = RZero THEN other
  ELSE IF CountAsDouble(kind, other.count) = RZero THEN this
  ELSE IF (~kind.weighted) /\ this.count = 1
       THEN Central_add_entry(kind, other, Moment(this, 1))
  ELSE IF (~kind.weighted) /\ other.count = 1
       THEN Central_add_entry(kind, this, Moment(other, 1))
  ELSE Central_consolidate_general(kind, this, other)

\* the loop of OriginMomentAccum::add_entry (both overloads): entry i is the
\* running mean of val^i; divisor is count, or the guarded weight sum
RECURSIVE Origin_moment_loop(_, _, _, _, _, _)
Origin_moment_loop(i, accums, val, val_raised_to_i, weight, divisor) ==
  IF i > Len(accums) THEN accums
  ELSE LET val_raised_to_ip1 == RMul(val_raised_to_i, val)
           delta == RSub(val_raised_to_ip1, accums[i])
       IN Origin_moment_loop(i + 1,
            [accums EXCEPT ![i] = RAdd(accums[i], RDiv(RMul(delta, weight), divisor))],
            val, val_raised_to_ip1, weight, divisor)

\* OriginMomentAccum::add_entry(double val), CountT = int64_t
Origin_add_entry(kind, acc, val) ==
  LET count == acc.count + 1
  IN [count |-> count,
      moment_accums |-> Origin_moment_loop(1, acc.moment_accums, val, RInt(1),
                                           RInt(1), RInt(count))]

\* OriginMomentAccum::add_entry(double val, double weight) adding
\* delta / (weight_sum + (weight_sum == 0)) without the factor weight
Origin_add_entry_w_unit_weight(kind, acc, val, weight) ==
  IF ~kind.weighted THEN Origin_add_entry(kind, acc, val)
  ELSE
    LET weight_sum == RAdd(acc.count, weight)
        guard == RAdd(weight_sum, IF weight_sum = RZero THEN RInt(1) ELSE RZero)
    IN [count |-> weight_sum,
        moment_accums |-> Origin_moment_loop(1, acc.moment_accums, val, RInt(1),
                                             RInt(1), guard)]

\* OriginMomentAccum::add_entry(double val, double weight)
Origin_add_entry_w(kind, acc, val, weight) ==
  IF ~kind.weighted THEN Origin_add_entry(kind, acc, val)
  ELSE
    LET weight_sum == RAdd(acc.count, weight)
        guard == RAdd(weight_sum, IF weight_sum = RZero THEN RInt(1) ELSE RZero)
    IN [count |-> weight_sum,
        moment_accums |-> Origin_moment_loop(1, acc.moment_accums, val, RInt(1),
                                             weight, guard)]

\* OriginMomentAccum::consolidate_with_other
Origin_consolidate_with_other(kind, this, other) ==
  IF CountAsDouble(kind, this.count) = RZero THEN other
  ELSE IF CountAsDouble(kind, other.count) = RZero THEN this
  ELSE IF (~kind.weighted) /\ this.count = 1
       THEN Origin_add_entry(kind, other, Moment(this, 1))
  ELSE IF (~kind.weighted) /\ other.count = 1
       THEN Origin_add_entry(kind, this, Moment(other, 1))
  ELSE
    LET this_count == CountAsDouble(kind, this.count)
        other_count == CountAsDouble(kind, other.count)
        totcount == RAdd(this_count, other_count)
    IN [count |-> DoubleAsCount(kind, totcount),
        moment_accums |-> [i \in 1..kind.Order |->
                             consolidate_mean_(Moment(this, i), this_count,
                                               Moment(other, i), other_count,
                                               totcount)]]

\* the three methods of a scalar accumulator, by family
Accum_add_entry(kind, acc, val) ==
  IF kind.family = "central" THEN Central_add_entry(kind, acc, val)
  ELSE Origin_add_entry(kind, acc, val)

Accum_add_entry_w(kind, acc, val, weight) ==
  IF kind.family = "central" THEN Central_add_entry_w(kind, acc, val, weight)
  ELSE Origin_add_entry_w(kind, acc, val, weight)

Accum_consolidate_with_other(kind, this, other) ==
  IF kind.family = "central" THEN Central_consolidate_with_other(kind, this, other)
  ELSE Origin_consolidate_with_other(kind, this, other)

\* ------------------------------------------------------------------------
\* accumulators.hpp: ScalarAccumCollection<Accum> and
\* GenericHistogramAccumCollection<T>.  A collection is one record: a scalar
\* collection uses accum_list_, a histogram (kind.family = "histogram", T =
\* double when kind.weighted) uses n_data_bins_, bin_counts_ and
\* data_bin_edges_.  Sequences are 1-based: C's v[i] is v[i + 1].
\* ------------------------------------------------------------------------
IsHistogram(kind) == kind.family = "histogram"

\* T(0) of a histogram cell
HistZero(kind) == IF kind.weighted THEN RZero ELSE 0

\* ScalarAccumCollection(n_spatial_bins, nullptr)
NewScalarCollection(kind, n_spatial_bins) ==
  [kind |-> kind, n_spatial_bins_ |-> n_spatial_bins,
   accum_list_ |-> [i \in 1..n_spatial_bins |-> NewAccum(kind)],
   n_data_bins_ |-> 0, bin_counts_ |-> <<>>, data_bin_edges_ |-> <<>>]

\* GenericHistogramAccumCollection(n_spatial_bins, BinSpecification*)
NewHistogramCollection(kind, n_spatial_bins, data_bin_edges) ==
  LET n_data_bins == Len(data_bin_edges) - 1
  IN [kind |-> kind, n_spatial_bins_ |-> n_spatial_bins,
      accum_list_ |-> <<>>,
      n_data_bins_ |-> n_data_bins,
      bin_counts_ |-> [i \in 1..(n_data_bins * n_spatial_bins) |-> HistZero(kind)],
      data_bin_edges_ |-> data_bin_edges]

\* purge()
Coll_purge(c) ==
  IF IsHistogram(c.kind)
  THEN [c EXCEPT !.bin_counts_ = [i \in DOMAIN c.bin_counts_ |-> HistZero(c.kind)]]
  ELSE [c EXCEPT !.accum_list_ = [i \in DOMAIN c.accum_list_ |-> NewAccum(c.kind)]]

\* add_entry without the test of the data bin index: a value that falls in no
\* data bin is counted in the nearest one
Hist_add_entry_w_unguarded(c, spatial_bin_index, val, weight) ==
  LET found == identify_bin_index(val, c.data_bin_edges_, c.n_data_bins_)
      data_bin_index == IF found < c.n_data_bins_ THEN found
                        ELSE IF val <= c.data_bin_edges_[1] THEN 0
                             ELSE c.n_data_bins_ - 1
      i == data_bin_index + spatial_bin_index * c.n_data_bins_
  IN [c EXCEPT !.bin_counts_[i + 1] =
        IF c.kind.weighted THEN RAdd(@, RInt(weight)) ELSE @ + 1]

\* GenericHistogramAccumCollection::add_entry(spatial_bin_index, val, weight);
\* the unweighted histogram's add_entry(spatial_bin_index, val) is the same
\* with the cell incremented by one
Hist_add_entry_w(c, spatial_bin_index, val, weight) ==
  LET data_bin_index == identify_bin_index(val, c.data_bin_edges_, c.n_data_bins_)
      i == data_bin_index + spatial_bin_index * c.n_data_bins_
  IN IF data_bin_index < c.n_data_bins_
     THEN [c EXCEPT !.bin_counts_[i + 1] =
             IF c.kind.weighted THEN RAdd(@, RInt(weight)) ELSE @ + 1]
     ELSE c

\* ScalarAccumCollection::add_entry(spatial_bin_index, val, weight)
Scalar_add_entry_w(c, spatial_bin_index, val, weight) ==
  [c EXCEPT !.accum_list_[spatial_bin_index + 1] =
     Accum_add_entry_w(c.kind, @, RInt(val), RInt(weight))]

\* add_entry(spatial_bin_index, val, weight) of either collection
Coll_add_entry_w(c, spatial_bin_index, val, weight) ==
  IF IsHistogram(c.kind) THEN Hist_add_entry_w(c, spatial_bin_index, val, weight)
  ELSE Scalar_add_entry_w(c, spatial_bin_index, val, weight)

\* the shape test of the two consolidate_with_other methods: TRUE is the
\* fatal error("There seemed to be a mismatch during consolidation")
Coll_mismatch(this, other) ==
  IF IsHistogram(this.kind)
  THEN (other.n_spatial_bins_ # this.n_spatial_bins_)
       \/ (other.n_data_bins_ # this.n_data_bins_)
  ELSE Len(other.accum_list_) # Len(this.accum_list_)

\* GenericHistogramAccumCollection::consolidate_with_other with = for +=
Hist_consolidate_assign(this, other) ==
  [this EXCEPT !.bin_counts_ = [i \in DOMAIN this.bin_counts_ |-> other.bin_counts_[i]]]

\* GenericHistogramAccumCollection::consolidate_with_other, shapes matching
Hist_consolidate_with_other(this, other) ==
  [this EXCEPT !.bin_counts_ =
     [i \in DOMAIN this.bin_counts_ |->
        IF this.kind.weighted THEN RAdd(this.bin_counts_[i], other.bin_counts_[i])
        ELSE this.bin_counts_[i] + other.bin_counts_[i]]]

\* ScalarAccumCollection::consolidate_with_other with the loop starting at 1
Scalar_consolidate_skip_first(this, other) ==
  [this EXCEPT !.accum_list_ =
     [i \in DOMAIN this.accum_list_ |->
        IF i = 1 THEN this.accum_list_[i]
        ELSE Accum_consolidate_with_other(this.kind, this.accum_list_[i],
                                          other.accum_list_[i])]]

\* ScalarAccumCollection::consolidate_with_other, shapes matching
Scalar_consolidate_with_other(this, other) ==
  [this EXCEPT !.accum_list_ =
     [i \in DOMAIN this.accum_list_ |->
        Accum_consolidate_with_other(this.kind, this.accum_list_[i],
                                     other.accum_list_[i])]]

Coll_consolidate_with_other(this, other) ==
  IF IsHistogram(this.kind) THEN Hist_consolidate_with_other(this, other)
  ELSE Scalar_consolidate_with_other(this, other)

\* consolidate_with_other with the shape test made after the first element
\* of *this has been updated
Coll_consolidate_with_other_late_test(this, other) ==
  IF Coll_mismatch(this, other)
  THEN [err |-> TRUE,
        this |-> IF IsHistogram(this.kind)
                 THEN [this EXCEPT !.bin_counts_[1] =
                         IF this.kind.weighted THEN RAdd(@, other.bin_counts_[1])
                         ELSE @ + other.bin_counts_[1]]
                 ELSE [this EXCEPT !.accum_list_[1] =
                         Accum_consolidate_with_other(this.kind, @,
                                                      other.accum_list_[1])]]
  ELSE [err |-> FALSE, this |-> Coll_consolidate_with_other(this, other)]

\* consolidate_with_other of the two collection classes as a whole: the
\* shape test, which ends in error(), then the loop over the elements
Coll_consolidate_with_other_call(this, other) ==
  IF Coll_mismatch(this, other)
  THEN [err |-> TRUE, this |-> this]
  ELSE [err |-> FALSE, this |-> Coll_consolidate_with_other(this, other)]

\* num_type_vals_per_bin_<Accum, T>: the lengths of i64_val_names() and
\* flt_val_names(); T is "i64" or "flt"
num_type_vals_per_bin_(kind, T) ==
  IF T = "i64" THEN (IF kind.weighted THEN 0 ELSE 1)
  ELSE kind.Order + (IF kind.weighted THEN 1 ELSE 0)

\* access<T>(i) const of a scalar accumulator, for i below the number of
\* values of type T
Accum_access(kind, T, acc, i) ==
  IF T = "i64" THEN acc.count
  ELSE IF ~kind.weighted THEN acc.moment_accums[i + 1]
  ELSE IF i = 0 THEN acc.count
  ELSE acc.moment_accums[i]

\* access<T>(i) = value
Accum_assign(kind, T, acc, i, value) ==
  IF T = "i64" THEN [acc EXCEPT !.count = value]
  ELSE IF ~kind.weighted THEN [acc EXCEPT !.moment_accums[i + 1] = value]
  ELSE IF i = 0 THEN [acc EXCEPT !.count = value]
  ELSE [acc EXCEPT !.moment_accums[i] = value]

\* a buffer is a function on 0 .. size-1; this is one with nothing written yet
Garbage(T) == IF T = "i64" THEN -7 ELSE RInt(-7)
NewBuffer(T, size) == [k \in 0..(size - 1) |-> Garbage(T)]

\* ScalarAccumCollection::copy_vals<T> writing accumulator i's value j at
\* j + i * num_dtype_vals
Scalar_copy_vals_rowmajor(c, T, out_vals) ==
  LET num_dtype_vals == num_type_vals_per_bin_(c.kind, T)
      n_bins == Len(c.accum_list_)
  IN [k \in DOMAIN out_vals |->
        IF k < n_bins * num_dtype_vals
        THEN Accum_access(c.kind, T, c.accum_list_[(k \div num_dtype_vals) + 1],
                          k % num_dtype_vals)
        ELSE out_vals[k]]

\* ScalarAccumCollection::copy_vals<T>: out_vals[i + j * n_bins] =
\* accum_list_[i].access<T>(j)
Scalar_copy_vals(c, T, out_vals) ==
  LET num_dtype_vals == num_type_vals_per_bin_(c.kind, T)
      n_bins == Len(c.accum_list_)
  IN [k \in DOMAIN out_vals |->
        IF k < n_bins * num_dtype_vals
        THEN Accum_access(c.kind, T, c.accum_list_[(k % n_bins) + 1], k \div n_bins)
        ELSE out_vals[k]]

\* the inner loop of ScalarAccumCollection::import_vals<T> for accumulator i
RECURSIVE Scalar_import_loop(_, _, _, _, _, _, _)
Scalar_import_loop(kind, T, acc, i, j, n_bins, in_vals) ==
  IF j >= num_type_vals_per_bin_(kind, T) THEN acc
  ELSE Scalar_import_loop(kind, T,
                          Accum_assign(kind, T, acc, j, in_vals[i + j * n_bins]),
                          i, j + 1, n_bins, in_vals)

\* ScalarAccumCollection::import_vals<T>
Scalar_import_vals(c, T, in_vals) ==
  LET n_bins == Len(c.accum_list_)
  IN [c EXCEPT !.accum_list_ =
        [b \in DOMAIN c.accum_list_ |->
           Scalar_import_loop(c.kind, T, c.accum_list_[b], b - 1, 0, n_bins, in_vals)]]

\* whether Tbuf is the histogram's cell type T
HistHolds(kind, Tbuf) == (Tbuf = "flt") = kind.weighted

\* copy_vals of a histogram with the spatial bin as the inner index: cell
\* (data bin k, spatial bin s) written to out_vals[s + k * n_spatial_bins_]
Hist_copy_vals_spatial_inner(c, Tbuf, out_vals) ==
  IF HistHolds(c.kind, Tbuf)
  THEN [i \in DOMAIN out_vals |->
          IF i < Len(c.bin_counts_)
          THEN c.bin_counts_[(i \div c.n_spatial_bins_)
                             + (i % c.n_spatial_bins_) * c.n_data_bins_ + 1]
          ELSE out_vals[i]]
  ELSE out_vals

\* GenericHistogramAccumCollection::copy_vals<Tbuf>
Hist_copy_vals(c, Tbuf, out_vals) ==
  IF HistHolds(c.kind, Tbuf)
  THEN [k \in DOMAIN out_vals |->
          IF k < Len(c.bin_counts_) THEN c.bin_counts_[k + 1] ELSE out_vals[k]]
  ELSE out_vals

\* GenericHistogramAccumCollection::import_vals<Tbuf>
Hist_import_vals(c, Tbuf, in_vals) ==
  IF HistHolds(c.kind, Tbuf)
  THEN [c EXCEPT !.bin_counts_ = [i \in DOMAIN c.bin_counts_ |-> in_vals[i - 1]]]
  ELSE c

Coll_copy_vals(c, T, out_vals) ==
  IF IsHistogram(c.kind) THEN Hist_copy_vals(c, T, out_vals)
  ELSE Scalar_copy_vals(c, T, out_vals)

Coll_import_vals(c, T, in_vals) ==
  IF IsHistogram(c.kind) THEN Hist_import_vals(c, T, in_vals)
  ELSE Scalar_import_vals(c, T, in_vals)

\* flt_val_props() / i64_val_props(): the entries per spatial bin of each
\* field of type T, in order
val_props(c, T) ==
  IF IsHistogram(c.kind)
  THEN (IF HistHolds(c.kind, T) THEN <<c.n_data_bins_>> ELSE <<>>)
  ELSE [j \in 1..num_type_vals_per_bin_(c.kind, T) |-> 1]

RECURSIVE SumSeq(_)
SumSeq(q) == IF q = <<>> THEN 0 ELSE Head(q) + SumSeq(Tail(q))

\* the buffer size a caller derives from the props
BufferSize(c, T) == c.n_spatial_bins_ * SumSeq(val_props(c, T))

\* ------------------------------------------------------------------------
\* vsf.cpp: the pair kernel.  A pointer is null or an array with an offset;
\* reading through a null pointer or outside the array is undefined
\* behaviour, reported as ub = TRUE.
\* ------------------------------------------------------------------------
Ptr(arr) == [null |-> FALSE, arr |-> arr, off |-> 0]
NullPtr == [null |-> TRUE, arr |-> <<>>, off |-> 0]
PtrAdd(ptr, k) == [ptr EXCEPT !.off = @ + k]
CanRead(ptr, k) == (~ptr.null) /\ ((ptr.off + k) \in 0..(Len(ptr.arr) - 1))
Deref(ptr, k) == ptr.arr[ptr.off + k + 1]

\* struct PointProps
PointProps(positions, values, n_points, n_spatial_dims, spatial_dim_stride) ==
  [positions |-> positions, values |-> values, n_points |-> n_points,
   n_spatial_dims |-> n_spatial_dims, spatial_dim_stride |-> spatial_dim_stride]

calc_dist_sqr(x0, x1, y0, y1, z0, z1) ==
  LET dx == x0 - x1
      dy == y0 - y1
      dz == z0 - z1
  IN dx * dx + dy * dy + dz * dz

\* std::sqrt, on the perfect squares the model's values give
Sqrt(n) == CHOOSE r \in 0..n : r * r = n

\* the pair_rslt with the correlate branch taking the difference of the two
\* scalars in place of their product
calc_pair_rslt_difference(points_a, points_b, i_a, i_b, choice) ==
  LET sa == points_a.spatial_dim_stride
      sb == points_b.spatial_dim_stride
      dist_sqr ==
        calc_dist_sqr(Deref(points_a.positions, i_a), Deref(points_b.positions, i_b),
                      Deref(points_a.positions, i_a + sa),
                      Deref(points_b.positions, i_b + sb),
                      Deref(points_a.positions, i_a + 2 * sa),
                      Deref(points_b.positions, i_b + 2 * sb))
  IN [dist_sqr |-> dist_sqr,
      abs_vdiff |->
        IF choice = "correlate"
        THEN Deref(points_a.values, i_a) - Deref(points_b.values, i_b)
        ELSE Sqrt(calc_dist_sqr(
               Deref(points_a.values, i_a), Deref(points_b.values, i_b),
               Deref(points_a.values, i_a + sa), Deref(points_b.values, i_b + sb),
               Deref(points_a.values, i_a + 2 * sa),
               Deref(points_b.values, i_b + 2 * sb)))]

\* the pair_rslt of points i_a of points_a and i_b of points_b:
\* legacy_calc_pair_rslt under "sf", the correlate branch's tmp otherwise
calc_pair_rslt(points_a, points_b, i_a, i_b, choice) ==
  LET sa == points_a.spatial_dim_stride
      sb == points_b.spatial_dim_stride
      dist_sqr ==
        calc_dist_sqr(Deref(points_a.positions, i_a), Deref(points_b.positions, i_b),
                      Deref(points_a.positions, i_a + sa),
                      Deref(points_b.positions, i_b + sb),
                      Deref(points_a.positions, i_a + 2 * sa),
                      Deref(points_b.positions, i_b + 2 * sb))
  IN [dist_sqr |-> dist_sqr,
      abs_vdiff |->
        IF choice = "correlate"
        THEN Deref(points_a.values, i_a) * Deref(points_b.values, i_b)
        ELSE Sqrt(calc_dist_sqr(
               Deref(points_a.values, i_a), Deref(points_b.values, i_b),
               Deref(points_a.values, i_a + sa), Deref(points_b.values, i_b + sb),
               Deref(points_a.values, i_a + 2 * sa),
               Deref(points_b.values, i_b + 2 * sb)))]

\* whether the kernel's reads of point i are inside the arrays
PointReadable(points, i, choice) ==
  /\ \A d \in 0..2 : CanRead(points.positions, i + d * points.spatial_dim_stride)
  /\ IF choice = "correlate" THEN CanRead(points.values, i)
     ELSE \A d \in 0..2 : CanRead(points.values, i + d * points.spatial_dim_stride)

\* add_entry(spatial_bin_index, val) of a collection that takes no weight
Coll_add_entry(c, spatial_bin_index, val) ==
  Coll_add_entry_w(c, spatial_bin_index, val, 1)

\* process_data's inner loop without the test bin_ind < nbins: a pair that
\* falls in no spatial bin is added to the last one
RECURSIVE process_data_loop_unguarded(_, _, _, _, _, _, _, _)
process_data_loop_unguarded(i_a, i_b, points_a, points_b, dist_sqr_bin_edges, nbins, accumulators, choice) ==
  IF i_b >= points_b.n_points THEN [ub |-> FALSE, accumulators |-> accumulators]
  ELSE IF ~PointReadable(points_b, i_b, choice)
  THEN [ub |-> TRUE, accumulators |-> accumulators]
  ELSE
    LET tmp == calc_pair_rslt(points_a, points_b, i_a, i_b, choice)
        bin_index == identify_bin_index(tmp.dist_sqr, dist_sqr_bin_edges, nbins)
    IN process_data_loop_unguarded(i_a, i_b + 1, points_a, points_b,
         dist_sqr_bin_edges, nbins,
         Coll_add_entry(accumulators, Min(bin_index, nbins - 1), tmp.abs_vdiff),
         choice)

\* process_data's inner loop, for (i_b = i_b_start; i_b < n_points_b; i_b++),
\* from i_b on: ub when a read of point i_b is outside its arrays
RECURSIVE process_data_loop(_, _, _, _, _, _, _, _)
process_data_loop(i_a, i_b, points_a, points_b, dist_sqr_bin_edges, nbins, accumulators, choice) ==
  IF i_b >= points_b.n_points THEN [ub |-> FALSE, accumulators |-> accumulators]
  ELSE IF ~PointReadable(points_b, i_b, choice)
  THEN [ub |-> TRUE, accumulators |-> accumulators]
  ELSE
    LET tmp == calc_pair_rslt(points_a, points_b, i_a, i_b, choice)
        bin_index == identify_bin_index(tmp.dist_sqr, dist_sqr_bin_edges, nbins)
    IN process_data_loop(i_a, i_b + 1, points_a, points_b, dist_sqr_bin_edges, nbins,
         IF bin_index < nbins
         THEN Coll_add_entry(accumulators, bin_index, tmp.abs_vdiff)
         ELSE accumulators,
         choice)

\* process_data's outer loop, for (i_a = 0; i_a < n_points_a; i_a++), from
\* i_a on: point i_a of points_a is read before the inner loop starts
RECURSIVE process_data_outer_loop(_, _, _, _, _, _, _, _)
process_data_outer_loop(i_a, points_a, points_b, dist_sqr_bin_edges, nbins, accumulators, duplicated_points, choice) ==
  IF i_a >= points_a.n_points THEN [ub |-> FALSE, accumulators |-> accumulators]
  ELSE IF ~PointReadable(points_a, i_a, choice)
  THEN [ub |-> TRUE, accumulators |-> accumulators]
  ELSE
    LET i_b_start == IF duplicated_points THEN i_a + 1 ELSE 0
        row == process_data_loop(i_a, i_b_start, points_a, points_b,
                                 dist_sqr_bin_edges, nbins, accumulators, choice)
    IN IF row.ub THEN row
       ELSE process_data_outer_loop(i_a + 1, points_a, points_b, dist_sqr_bin_edges,
                                    nbins, row.accumulators, duplicated_points, choice)

\* process_data<AccumCollection, duplicated_points, choice>: ub when one of its
\* reads is outside the arrays, and then the collection counts for nothing
process_data(points_a, points_b, dist_sqr_bin_edges, nbins, accumulators, duplicated_points, choice) ==
  LET done == process_data_outer_loop(0, points_a, points_b, dist_sqr_bin_edges,
                                      nbins, accumulators, duplicated_points, choice)
  IN IF done.ub THEN [ub |-> TRUE, accumulators |-> accumulators] ELSE done

\* the body of process_TaskIt_'s loop for one task
process_StatTask(points_a, points_b, dist_sqr_bin_edges, nbins, accumulators, duplicated_points, stat_task, choice) ==
  LET cur_points_a ==
        PointProps(PtrAdd(points_a.positions, stat_task.start_A),
                   PtrAdd(points_a.values, stat_task.start_A),
                   stat_task.stop_A - stat_task.start_A,
                   points_a.n_spatial_dims, points_a.spatial_dim_stride)
      cur_points_b ==
        PointProps(PtrAdd(points_b.positions, stat_task.start_B),
                   PtrAdd(points_b.values, stat_task.start_B),
                   stat_task.stop_B - stat_task.start_B,
                   points_b.n_spatial_dims, points_b.spatial_dim_stride)
  IN IF duplicated_points /\ (stat_task.start_B = stat_task.stop_B)
        /\ (stat_task.stop_B = 0)
     THEN process_data(cur_points_a, cur_points_a, dist_sqr_bin_edges, nbins,
                       accumulators, TRUE, choice)
     ELSE process_data(cur_points_a, cur_points_b, dist_sqr_bin_edges, nbins,
                       accumulators, FALSE, choice)

\* get_nominal_nproc_; OMP_NUM_THREADS is [set, val], val being what
\* std::atoi makes of it; err is error("OMP_NUM_THREADS has an invalid value")
get_nominal_nproc_(parallel_spec, OMP_NUM_THREADS) ==
  IF parallel_spec.nproc = 0
  THEN IF ~OMP_NUM_THREADS.set THEN [err |-> FALSE, nproc |-> 1]
       ELSE IF OMP_NUM_THREADS.val <= 0 THEN [err |-> TRUE, nproc |-> 0]
       ELSE [err |-> FALSE, nproc |-> OMP_NUM_THREADS.val]
  ELSE [err |-> FALSE, nproc |-> parallel_spec.nproc]

\* the left fold that ends calc_vsf_props_parallel_: accumulators =
\* partition_dest[0], then consolidate_with_other(partition_dest[i]) for
\* i = 1 .. nproc-1 (C's index i is i + 1 here)
RECURSIVE consolidate_loop(_, _, _)
consolidate_loop(accumulators, partition_dest, i) ==
  IF i > Len(partition_dest) THEN accumulators
  ELSE consolidate_loop(Coll_consolidate_with_other(accumulators, partition_dest[i]),
                        partition_dest, i + 1)

\* the loop that squares the bin edges in calc_vsf_props
dist_sqr_bin_edges_vec(edges, nbins) ==
  [i \in 1..(nbins + 1) |->
     IF edges[i] < 0 THEN edges[i] ELSE edges[i] * edges[i]]

\* a std::variant that holds no collection yet
NoCollection ==
  [kind |-> AccumKind("none", 0, FALSE), n_spatial_bins_ |-> 0,
   accum_list_ |-> <<>>, n_data_bins_ |-> 0, bin_counts_ |-> <<>>,
   data_bin_edges_ |-> <<>>]

\* build_accum_collection for a stat_list of one item: "mean" gives a
\* scalar collection of unweighted first-order central moments, "histogram"
\* an integer histogram over the item's data bin edges, each with nbins
\* spatial bins
build_accum_collection(stat_list, nbins) ==
  IF stat_list.statistic = "histogram"
  THEN NewHistogramCollection(AccumKind("histogram", 1, FALSE), nbins,
                              stat_list.data_bin_edges)
  ELSE NewScalarCollection(AccumKind("central", 1, FALSE), nbins)

\* ------------------------------------------------------------------------
\* compound_accumulator.hpp: CompoundAccumCollection over a tuple of member
\* collections.  A result with err = TRUE stands for the call ending in
\* error("Not Implemented").
\* ------------------------------------------------------------------------
\* CompoundAccumCollection::add_entry(spatial_bin_index, val): each member's
\* add_entry without a weight, which ends in error() in a member that
\* requires one
Compound_add_entry(tuple, spatial_bin_index, val) ==
  IF \E m \in DOMAIN tuple : tuple[m].kind.weighted
  THEN [err |-> TRUE, accum_collec_tuple_ |-> tuple]
  ELSE [err |-> FALSE,
        accum_collec_tuple_ |->
          [m \in DOMAIN tuple |-> Coll_add_entry(tuple[m], spatial_bin_index, val)]]

\* CompoundAccumCollection::add_entry(spatial_bin_index, val, weight): each
\* member's add_entry with a weight, which a member that takes no weight
\* ignores
Compound_add_entry_w(tuple, spatial_bin_index, val, weight) ==
  [m \in DOMAIN tuple |-> Coll_add_entry_w(tuple[m], spatial_bin_index, val, weight)]

\* CompoundAccumCollection::consolidate_with_other from member m on: each
\* member is consolidated with the member of other of its type, and the
\* first member whose shape test fails ends the call in error()
RECURSIVE Compound_consolidate_loop(_, _, _)
Compound_consolidate_loop(tuple, other, m) ==
  IF m > Len(tuple) THEN [err |-> FALSE, accum_collec_tuple_ |-> tuple]
  ELSE
    LET rslt == Coll_consolidate_with_other_call(tuple[m], other[m])
    IN IF rslt.err THEN [err |-> TRUE, accum_collec_tuple_ |-> tuple]
       ELSE Compound_consolidate_loop([tuple EXCEPT ![m] = rslt.this], other, m + 1)

\* CompoundAccumCollection::consolidate_with_other
Compound_consolidate_with_other(tuple, other) ==
  Compound_consolidate_loop(tuple, other, 1)

\* for_each_tuple_entry with a CopyValsHelper_<T> whose offset_ is not kept
\* from one member to the next (the functor passed by value)
RECURSIVE CopyValsHelper_by_value(_, _, _, _, _)
CopyValsHelper_by_value(tuple, m, T, data_ptr_, offset_) ==
  IF m > Len(tuple) THEN data_ptr_
  ELSE
    LET size == tuple[m].n_spatial_bins_ * SumSeq(val_props(tuple[m], T))
        copied == Coll_copy_vals(tuple[m], T,
                                 [k \in 0..(size - 1) |-> data_ptr_[offset_ + k]])
        written == [k \in DOMAIN data_ptr_ |->
                      IF (offset_ <= k) /\ (k < offset_ + size)
                      THEN copied[k - offset_] ELSE data_ptr_[k]]
    IN CopyValsHelper_by_value(tuple, m + 1, T, written, offset_)

\* for_each_tuple_entry with one CopyValsHelper_<T>, from member m on: the
\* member copies its values to data_ptr_ + offset_, and offset_ advances by
\* n_spatial_bins times the entries per spatial bin of its fields of type T
RECURSIVE CopyValsHelper_(_, _, _, _, _)
CopyValsHelper_(tuple, m, T, data_ptr_, offset_) ==
  IF m > Len(tuple) THEN data_ptr_
  ELSE
    LET size == tuple[m].n_spatial_bins_ * SumSeq(val_props(tuple[m], T))
        copied == Coll_copy_vals(tuple[m], T,
                                 [k \in 0..(size - 1) |-> data_ptr_[offset_ + k]])
        written == [k \in DOMAIN data_ptr_ |->
                      IF (offset_ <= k) /\ (k < offset_ + size)
                      THEN copied[k - offset_] ELSE data_ptr_[k]]
    IN CopyValsHelper_(tuple, m + 1, T, written, offset_ + size)

\* CompoundAccumCollection::copy_vals<T>
Compound_copy_vals(tuple, T, out_vals) == CopyValsHelper_(tuple, 1, T, out_vals, 0)

\* CompoundAccumCollection::flt_val_props / i64_val_props
Compound_val_props(tuple, T) == [err |-> TRUE, props |-> <<>>]

\* CompoundAccumCollection::import_vals<T>
Compound_import_vals(tuple, T, in_vals) == [err |-> TRUE, accum_collec_tuple_ |-> tuple]

\* ------------------------------------------------------------------------
\* SpecSlice: calc_chunk_slice called for chunk 0, 1, ... of one array
\* ------------------------------------------------------------------------
PartIdle ==
  /\ partition_strat_ = AutoStrat(0, 0)
  /\ index_stop_1D_ = 0
  /\ next_index_1D_ = 0
  /\ next_index_2D_ = <<0, 0>>
  /\ tasks = <<>>
  /\ visits = <<>>

BinIdle ==
  /\ bin_edges = <<>>
  /\ x = 0
  /\ bin_ind = -1

\* the weighted accumulator type of the order of an unweighted one; weighted
\* central moments exist up to order 2
WeightedKind(kind) == AccumKind("central", Min(kind.Order, 2), TRUE)

AccIdle ==
  /\ acc_kind = AccumKind("central", 1, FALSE)
  /\ whole = NewAccum(acc_kind)
  /\ merged = NewAccum(acc_kind)
  /\ cur = NewAccum(acc_kind)
  /\ entries = <<>>
  /\ chunk_sizes = <<>>
  /\ whole_w = NewAccum(WeightedKind(acc_kind))
  /\ merged_w = NewAccum(WeightedKind(acc_kind))
  /\ cur_w = NewAccum(WeightedKind(acc_kind))

SliceIdle ==
  /\ array_len = 0
  /\ num_chunks = 0
  /\ chunk_index = -1
  /\ slc = NoSlc
  /\ prev_slc = NoSlc

CollIdle ==
  /\ coll_X = <<>>
  /\ coll_Y = <<>>
  /\ coll_P = <<>>
  /\ coll_snap = <<>>
  /\ coll_op = "none"
  /\ out_i64_vals = <<>>
  /\ out_flt_vals = <<>>
  /\ coll_n_entries = 0
  /\ coll_weights = {}

DrvIdle ==
  /\ par_initial = <<>>
  /\ drv_call = <<>>
  /\ drv_pc = "idle"
  /\ drv_edges = <<>>
  /\ drv_accumulators = <<>>
  /\ drv_factory = <<>>
  /\ drv_partition_dest = <<>>
  /\ drv_workers = <<>>
  /\ drv_returned = "none"
  /\ drv_ub = FALSE
  /\ drv_out_flt_vals = <<>>
  /\ drv_out_i64_vals = <<>>

\* every group of variables but the named one is at rest
CmpIdle ==
  /\ accum_collec_tuple_ = <<>>
  /\ cmp_op = "none"
  /\ cmp_fatal = FALSE
  /\ cmp_props = <<>>
  /\ cmp_out_i64_vals = <<>>
  /\ cmp_out_flt_vals = <<>>
  /\ cmp_n_entries = 0

MkIdle ==
  /\ mk_args = <<>>
  /\ mk_rslt = <<>>

FacIdle ==
  /\ fac_args = <<>>
  /\ fac_factory = <<>>
  /\ fac_its = <<>>
  /\ fac_fatal = FALSE

SqrIdle ==
  /\ sqr_bin_edges = <<>>
  /\ sqr_dist_sqr_bin_edges_vec = <<>>
  /\ sqr_d = 0
  /\ sqr_bins = <<>>

IdleBut(group) ==
  /\ (group = "drv" \/ DrvIdle)
  /\ (group = "sqr" \/ SqrIdle)
  /\ (group = "cmp" \/ CmpIdle)
  /\ (group = "mk" \/ MkIdle)
  /\ (group = "fac" \/ FacIdle)
  /\ (group = "coll" \/ CollIdle)
  /\ (group = "slice" \/ SliceIdle)
  /\ (group = "part" \/ PartIdle)
  /\ (group = "bin" \/ BinIdle)
  /\ (group = "acc" \/ AccIdle)

InitSlice ==
  /\ array_len \in 1..MaxLen
  /\ num_chunks \in 1..array_len
  /\ chunk_index = -1
  /\ slc = NoSlc
  /\ prev_slc = NoSlc
  /\ IdleBut("slice")

SliceCall ==
  /\ chunk_index + 1 < num_chunks
  /\ chunk_index' = chunk_index + 1
  /\ prev_slc' = slc
  /\ slc' = calc_chunk_slice(chunk_index + 1, array_len, num_chunks)
  /\ UNCHANGED <<array_len, num_chunks, not_slice_vars>>

NextSlice == SliceCall

SpecSlice == InitSlice /\ [][NextSlice]_vars

\* ------------------------------------------------------------------------
\* SpecPart: a TaskIt over [0, n_partitions) of an auto or cross strategy
\* ------------------------------------------------------------------------
PointPairs(n_a, n_b) == (0..(n_a - 1)) \X (0..(n_b - 1))

InitPart ==
  /\ IdleBut("part")
  /\ \/ \E n \in 2..MaxPoints : \E s \in 1..(n - 1) :
          /\ partition_strat_ = AutoStrat(n, s)
          /\ visits = [p \in PointPairs(n, n) |-> 0]
     \/ \E n_a \in 1..MaxPointsB : \E n_b \in 1..MaxPointsB :
        \E s_a \in 1..n_a : \E s_b \in 1..n_b :
          /\ partition_strat_ = CrossStrat(n_a, s_a, n_b, s_b)
          /\ visits = [p \in PointPairs(n_a, n_b) |-> 0]
  /\ index_stop_1D_ = n_partitions(partition_strat_)
  /\ next_index_1D_ = 0
  /\ next_index_2D_ = <<0, 0>>
  /\ tasks = <<>>

\* TaskIt::has_next
has_next == next_index_1D_ < index_stop_1D_

\* TaskIt::next followed by the kernel's expansion of the task it returned
TaskIt_next ==
  /\ has_next
  /\ LET out == build_StatTask(partition_strat_, next_index_2D_)
         enumerated == task_pairs(out, partition_strat_.kind = "auto")
     IN /\ tasks' = Append(tasks, out)
        /\ visits' = [p \in DOMAIN visits |->
                        visits[p] + Cardinality({k \in 1..Len(enumerated) :
                                                   enumerated[k] = p})]
  /\ next_index_1D_' = next_index_1D_ + 1
  /\ next_index_2D_' = increment2D_index(partition_strat_, next_index_2D_)
  /\ UNCHANGED <<partition_strat_, index_stop_1D_, not_part_vars>>

NextPart == TaskIt_next

SpecPart == InitPart /\ [][NextPart]_vars

\* ------------------------------------------------------------------------
\* SpecBin: identify_bin_index called on one edge array
\* ------------------------------------------------------------------------
InitBin ==
  /\ IdleBut("bin")
  /\ \E n \in 1..MaxBins : bin_edges \in EdgeArrays(n, -1, MaxEdge)
  /\ x = 0
  /\ bin_ind = -1

IdentifyBin ==
  /\ \E value \in -2..(MaxEdge + 1) :
       /\ x' = value
       /\ bin_ind' = identify_bin_index(value, bin_edges, Len(bin_edges) - 1)
  /\ UNCHANGED <<bin_edges, not_bin_vars>>

NextBin == IdentifyBin

SpecBin == InitBin /\ [][NextBin]_vars

\* ------------------------------------------------------------------------
\* SpecSqr: the loop of calc_vsf_props that squares the bin edges, then
\* identify_bin_index on a distance and the original edges and on the
\* distance's square and the squared edges.  The doubles of this
\* specification are zero and plus or minus a power of two, each written as
\* an integer code in the order of the doubles: 0 for 0.0, exp + 1075 for
\* 2^exp and -(exp + 1075) for -2^exp, with -1074 <= exp <= 1023 (2^-1074
\* is the least positive double), and DblInf for +infinity.  The product of
\* two such doubles is exact unless it overflows to +infinity or underflows
\* to zero (2^-1075 is halfway between 0 and 2^-1074 and rounds to even).
\* ------------------------------------------------------------------------
DblInf == 1024 + 1075
Dbl(sign, exp) == sign * (exp + 1075)
DblExp(c) == Abs(c) - 1075

\* the double c * c
Dbl_mul_self(c) ==
  IF c = 0 THEN 0
  ELSE IF 2 * DblExp(c) > 1023 THEN DblInf
       ELSE IF 2 * DblExp(c) < -1074 THEN 0
            ELSE Dbl(1, 2 * DblExp(c))

\* the loop that squares the bin edges with the test for a negative edge
\* left out
dist_sqr_bin_edges_vec_dbl_all_squared(edges, nbins) ==
  [i \in 1..(nbins + 1) |-> Dbl_mul_self(edges[i])]

\* the loop that squares the bin edges in calc_vsf_props, on doubles
dist_sqr_bin_edges_vec_dbl(edges, nbins) ==
  [i \in 1..(nbins + 1) |->
     IF edges[i] < 0 THEN edges[i] ELSE Dbl_mul_self(edges[i])]

TinyExp == 600    \* 2^-TinyExp squared is less than the least positive double
HugeExp == 600    \* 2^HugeExp squared is more than the greatest double

\* -2, -1, 0, two tiny doubles, 1/2, 1, 2, 4 and two huge doubles
SqrDoubles ==
  {Dbl(-1, 1), Dbl(-1, 0), 0, Dbl(1, -TinyExp), Dbl(1, -TinyExp + 1),
   Dbl(1, -1), Dbl(1, 0), Dbl(1, 1), Dbl(1, 2), Dbl(1, HugeExp),
   Dbl(1, HugeExp + 1)}

InitSqr ==
  /\ IdleBut("sqr")
  /\ \E nbins \in 1..MaxSqrBins :
       sqr_bin_edges \in {e \in [1..(nbins + 1) -> SqrDoubles] :
                            \A i \in 1..nbins : e[i] < e[i + 1]}
  /\ sqr_dist_sqr_bin_edges_vec = <<>>
  /\ sqr_d = 0
  /\ sqr_bins = <<>>

\* calc_vsf_props recomputes the bin edges as squared distances
Sqr_SquareEdges ==
  /\ sqr_dist_sqr_bin_edges_vec = <<>>
  /\ sqr_dist_sqr_bin_edges_vec' =
       dist_sqr_bin_edges_vec_dbl(sqr_bin_edges, Len(sqr_bin_edges) - 1)
  /\ UNCHANGED <<sqr_bin_edges, sqr_d, sqr_bins, not_sqr_vars>>

\* identify_bin_index for a distance d >= 0 on the original edges and for
\* d * d on the squared edges
Sqr_IdentifyBins ==
  /\ sqr_dist_sqr_bin_edges_vec # <<>>
  /\ \E d \in {c \in SqrDoubles : c >= 0} :
       /\ sqr_d' = d
       /\ sqr_bins' =
            [d |-> identify_bin_index(d, sqr_bin_edges, Len(sqr_bin_edges) - 1),
             d_sqr |-> identify_bin_index(Dbl_mul_self(d), sqr_dist_sqr_bin_edges_vec,
                                          Len(sqr_bin_edges) - 1)]
  /\ UNCHANGED <<sqr_bin_edges, sqr_dist_sqr_bin_edges_vec, not_sqr_vars>>

NextSqr == Sqr_SquareEdges \/ Sqr_IdentifyBins

SpecSqr == InitSqr /\ [][NextSqr]_vars

\* ------------------------------------------------------------------------
\* SpecAccum: a stream of values added to one unweighted CentralMomentAccum
\* (whole) and, chunk by chunk, to fresh accumulators that are merged left to
\* right (merged).  Weighted accumulators of the same order (whole_w,
\* merged_w, cur_w) go through the same calls, each value with weight 1.
\* ------------------------------------------------------------------------
EntryValues == {0, 1, 3}

InitAccum ==
  /\ IdleBut("acc")
  /\ \E order \in 1..3 : acc_kind = AccumKind("central", order, FALSE)
  /\ whole = NewAccum(acc_kind)
  /\ merged = NewAccum(acc_kind)
  /\ cur = NewAccum(acc_kind)
  /\ entries = <<>>
  /\ chunk_sizes = <<>>
  /\ whole_w = NewAccum(WeightedKind(acc_kind))
  /\ merged_w = NewAccum(WeightedKind(acc_kind))
  /\ cur_w = NewAccum(WeightedKind(acc_kind))

\* add_entry(val) on the whole-stream accumulator and on the current chunk's
AddEntry ==
  /\ Len(entries) < MaxEntries
  /\ \E val \in EntryValues :
       /\ whole' = Accum_add_entry(acc_kind, whole, RInt(val))
       /\ cur' = Accum_add_entry(acc_kind, cur, RInt(val))
       /\ entries' = Append(entries, val)
       /\ whole_w' = Accum_add_entry_w(WeightedKind(acc_kind), whole_w, RInt(val), RInt(1))
       /\ cur_w' = Accum_add_entry_w(WeightedKind(acc_kind), cur_w, RInt(val), RInt(1))
  /\ UNCHANGED <<acc_kind, merged, merged_w, chunk_sizes, not_acc_vars>>

\* merged.consolidate_with_other(cur), then a fresh accumulator for the next
\* chunk
CloseChunk ==
  /\ cur.count > 0
  /\ merged' = Accum_consolidate_with_other(acc_kind, merged, cur)
  /\ cur' = NewAccum(acc_kind)
  /\ chunk_sizes' = Append(chunk_sizes, cur.count)
  /\ merged_w' = Accum_consolidate_with_other(WeightedKind(acc_kind), merged_w, cur_w)
  /\ cur_w' = NewAccum(WeightedKind(acc_kind))
  /\ UNCHANGED <<acc_kind, whole, whole_w, entries, not_acc_vars>>

NextAccum == AddEntry \/ CloseChunk

SpecAccum == InitAccum /\ [][NextAccum]_vars

\* ------------------------------------------------------------------------
\* SpecColl: two collections of one kind and shape take add_entry calls;
\* coll_Y is merged into coll_X and purged; then one of four calls involving
\* a third collection coll_P is made: coll_X merged with a coll_P of any
\* shape, or, with coll_P purged and of the same shape, coll_X merged with
\* coll_P, coll_P merged with coll_X, or coll_X's values copied out and
\* imported into coll_P.
\* Doubles are exact rationals, so a merge whose total weight is zero (its
\* quotient is inf or NaN) is not taken.
\* ------------------------------------------------------------------------
CollKinds ==
  {AccumKind("central", o, FALSE) : o \in 1..3}
    \cup {AccumKind("central", o, TRUE) : o \in 1..2}
    \cup {AccumKind("origin", o, w) : o \in 1..2, w \in BOOLEAN}
    \cup {AccumKind("histogram", 1, w) : w \in BOOLEAN}

SpatialBinCounts == {1, 2}
CollValues == {1, 3}
CollWeights == {-1, 0, 1}
CollDataBinEdges == <<0, 1, 3>>

NewCollection(kind, n_spatial_bins) ==
  IF IsHistogram(kind)
  THEN NewHistogramCollection(kind, n_spatial_bins, CollDataBinEdges)
  ELSE NewScalarCollection(kind, n_spatial_bins)

InitColl ==
  /\ \E kind \in CollKinds, n_spatial_bins \in SpatialBinCounts :
       /\ coll_X = NewCollection(kind, n_spatial_bins)
       /\ coll_Y = NewCollection(kind, n_spatial_bins)
       /\ coll_P = NewCollection(kind, n_spatial_bins)
  /\ coll_snap = coll_X
  /\ coll_op = "none"
  /\ out_i64_vals = <<>>
  /\ out_flt_vals = <<>>
  /\ coll_n_entries = 0
  /\ coll_weights = {}
  /\ IdleBut("coll")

\* add_entry(spatial_bin_index, val, weight) on coll_X or on coll_Y
Coll_AddEntry ==
  /\ coll_op = "none"
  /\ coll_n_entries < MaxCollEntries
  /\ \E to_X \in BOOLEAN, spatial_bin_index \in 0..(coll_X.n_spatial_bins_ - 1),
        val \in CollValues,
        weight \in (IF coll_X.kind.weighted THEN CollWeights ELSE {1}) :
       /\ IF to_X
          THEN /\ coll_X' = Coll_add_entry_w(coll_X, spatial_bin_index, val, weight)
               /\ coll_Y' = coll_Y
          ELSE /\ coll_Y' = Coll_add_entry_w(coll_Y, spatial_bin_index, val, weight)
               /\ coll_X' = coll_X
       /\ coll_weights' = coll_weights \cup {weight}
  /\ coll_snap' = coll_X
  /\ coll_n_entries' = coll_n_entries + 1
  /\ UNCHANGED <<coll_P, coll_op, out_i64_vals, out_flt_vals>>
  /\ UNCHANGED not_coll_vars

\* no accumulator pair of the two collections has a zero total weight
Coll_merge_is_finite(this, other) ==
  IsHistogram(this.kind) \/
  \A i \in DOMAIN this.accum_list_ :
    LET a == CountAsDouble(this.kind, this.accum_list_[i].count)
        b == CountAsDouble(this.kind, other.accum_list_[i].count)
    IN (a # RZero /\ b # RZero) => RAdd(a, b) # RZero

\* coll_X.consolidate_with_other(coll_Y); coll_Y.purge()
Coll_Merge ==
  /\ coll_op = "none"
  /\ coll_Y # Coll_purge(coll_Y)
  /\ ~Coll_mismatch(coll_X, coll_Y)
  /\ Coll_merge_is_finite(coll_X, coll_Y)
  /\ coll_snap' = coll_X
  /\ coll_X' = Coll_consolidate_with_other(coll_X, coll_Y)
  /\ coll_Y' = Coll_purge(coll_Y)
  /\ UNCHANGED <<coll_P, coll_op, out_i64_vals, out_flt_vals, coll_n_entries,
                 coll_weights>>
  /\ UNCHANGED not_coll_vars

\* a collection of the same class as coll_X and of any shape
NewCollectionOfShape(kind, n_spatial_bins, data_bin_edges) ==
  IF IsHistogram(kind)
  THEN NewHistogramCollection(kind, n_spatial_bins, data_bin_edges)
  ELSE NewScalarCollection(kind, n_spatial_bins)

OtherDataBinEdges == {CollDataBinEdges, <<0, 1>>}

\* coll_P is constructed with a shape of its own and may take one entry;
\* then coll_X.consolidate_with_other(coll_P)
Coll_MergeWithOther ==
  /\ coll_op = "none"
  /\ \E n_spatial_bins \in SpatialBinCounts, data_bin_edges \in OtherDataBinEdges, filled \in BOOLEAN :
       LET made == NewCollectionOfShape(coll_X.kind, n_spatial_bins, data_bin_edges)
           other == IF filled THEN Coll_add_entry_w(made, 0, 1, 1) ELSE made
           done == Coll_consolidate_with_other_call(coll_X, other)
       IN /\ IF Coll_mismatch(coll_X, other) THEN TRUE
             ELSE Coll_merge_is_finite(coll_X, other)
          /\ coll_P' = other
          /\ coll_X' = done.this
          /\ coll_op' = IF done.err THEN "fatal" ELSE "X_with_other"
  /\ coll_snap' = coll_X
  /\ UNCHANGED <<coll_Y, out_i64_vals, out_flt_vals, coll_n_entries, coll_weights>>
  /\ UNCHANGED not_coll_vars

\* coll_P.purge(); coll_X.consolidate_with_other(coll_P)
Coll_MergeWithPurged ==
  /\ coll_op = "none"
  /\ ~Coll_mismatch(coll_X, coll_P)
  /\ coll_snap' = coll_X
  /\ coll_P' = Coll_purge(coll_P)
  /\ coll_X' = Coll_consolidate_with_other(coll_X, Coll_purge(coll_P))
  /\ coll_op' = "X_with_P"
  /\ UNCHANGED <<coll_Y, out_i64_vals, out_flt_vals, coll_n_entries, coll_weights>>
  /\ UNCHANGED not_coll_vars

\* coll_P.purge(); coll_P.consolidate_with_other(coll_X)
Coll_MergeIntoPurged ==
  /\ coll_op = "none"
  /\ ~Coll_mismatch(coll_P, coll_X)
  /\ coll_snap' = coll_X
  /\ coll_P' = Coll_consolidate_with_other(Coll_purge(coll_P), coll_X)
  /\ coll_op' = "P_with_X"
  /\ UNCHANGED <<coll_X, coll_Y, out_i64_vals, out_flt_vals, coll_n_entries,
                 coll_weights>>
  /\ UNCHANGED not_coll_vars

\* coll_X.copy_vals(out_i64_vals); coll_X.copy_vals(out_flt_vals);
\* coll_P.purge(); coll_P.import_vals(out_i64_vals);
\* coll_P.import_vals(out_flt_vals)
Coll_RoundTrip ==
  /\ coll_op = "none"
  /\ coll_snap' = coll_X
  /\ out_i64_vals' = Coll_copy_vals(coll_X, "i64", NewBuffer("i64", BufferSize(coll_X, "i64")))
  /\ out_flt_vals' = Coll_copy_vals(coll_X, "flt", NewBuffer("flt", BufferSize(coll_X, "flt")))
  /\ coll_P' = Coll_import_vals(Coll_import_vals(Coll_purge(coll_P), "i64", out_i64_vals'),
                                "flt", out_flt_vals')
  /\ coll_op' = "round_trip"
  /\ UNCHANGED <<coll_X, coll_Y, coll_n_entries, coll_weights>>
  /\ UNCHANGED not_coll_vars

NextColl ==
  \/ Coll_AddEntry
  \/ Coll_Merge
  \/ Coll_MergeWithOther
  \/ Coll_MergeWithPurged
  \/ Coll_MergeIntoPurged
  \/ Coll_RoundTrip

SpecColl == InitColl /\ [][NextColl]_vars

\* ------------------------------------------------------------------------
\* SpecCreate: one call of AutoSFPartitionStrat::create or of
\* CrossSFPartitionStrat::create.  For the auto strategy the point counts
\* are the small ones and two around the small-problem limit of 1000; the
\* worker counts are the small ones and two around the limit of 60.
\* ------------------------------------------------------------------------
CreatePoints == (0..MaxCreatePoints) \cup {1000, 1001}
CreateNprocs == (0..MaxCreateNproc) \cup {60, 61}
\* for the cross strategy: small counts, and two that reach the limit of
\* 1000 pairs (200 * 5 = 1000, 1000 * 1 = 1000)
CreateCrossPoints == (0..MaxCreateCrossPoints) \cup {200, 1000}

InitCreate ==
  /\ mk_args = <<>>
  /\ mk_rslt = <<>>
  /\ IdleBut("mk")

CreateAuto ==
  /\ mk_args = <<>>
  /\ \E nproc \in CreateNprocs, n_points \in CreatePoints, skip_small_prob_check \in BOOLEAN :
       /\ mk_args' = [fn |-> "auto", nproc |-> nproc, n_points |-> n_points,
                      skip_small_prob_check |-> skip_small_prob_check]
       /\ mk_rslt' = Auto_create(nproc, n_points, skip_small_prob_check)
  /\ UNCHANGED not_mk_vars

CreateCross ==
  /\ mk_args = <<>>
  /\ \E nproc \in CreateNprocs, n_points_A \in CreateCrossPoints, n_points_B \in CreateCrossPoints, skip_small_problem_check \in BOOLEAN :
       /\ mk_args' = [fn |-> "cross", nproc |-> nproc,
                      n_points_A |-> n_points_A, n_points_B |-> n_points_B,
                      skip_small_problem_check |-> skip_small_problem_check]
       /\ mk_rslt' = Cross_create(nproc, n_points_A, n_points_B,
                                  skip_small_problem_check)
  /\ UNCHANGED not_mk_vars

NextCreate == CreateAuto \/ CreateCross

SpecCreate == InitCreate /\ [][NextCreate]_vars

\* ------------------------------------------------------------------------
\* SpecFactory: a TaskItFactory is constructed; then build_TaskIt is called
\* for the proc_ids below effective_nproc, in any order, and has_next /
\* next are called on the TaskIts it returned, in any order.
\* ------------------------------------------------------------------------
NotBuilt == [built |-> FALSE, task_iter |-> <<>>, index_start_1D |-> 0, yielded |-> <<>>]

InitFactory ==
  /\ \E nproc \in 0..MaxFacNproc, n_points \in 0..MaxFacPoints, n_points_other \in 0..MaxFacPointsOther, skip_small_prob_check \in BOOLEAN :
       fac_args = [nproc |-> nproc, n_points |-> n_points,
                   n_points_other |-> n_points_other,
                   skip_small_prob_check |-> skip_small_prob_check]
  /\ fac_factory = <<>>
  /\ fac_its = <<>>
  /\ fac_fatal = FALSE
  /\ IdleBut("fac")

\* TaskItFactory's constructor
Factory_Construct ==
  /\ fac_factory = <<>>
  /\ ~fac_fatal
  /\ LET made == TaskItFactory(fac_args.nproc, fac_args.n_points,
                               fac_args.n_points_other,
                               fac_args.skip_small_prob_check)
     IN IF made.err
        THEN fac_fatal' = TRUE /\ UNCHANGED <<fac_factory, fac_its>>
        ELSE /\ fac_factory' = made
             /\ fac_its' = [p \in 1..effective_nproc(made) |-> NotBuilt]
             /\ UNCHANGED fac_fatal
  /\ UNCHANGED <<fac_args, not_fac_vars>>

\* TaskItFactory::build_TaskIt(proc_id)
Factory_build_TaskIt ==
  /\ fac_factory # <<>>
  /\ ~fac_fatal
  /\ \E proc_id \in 0..(Len(fac_its) - 1) :
       /\ ~fac_its[proc_id + 1].built
       /\ LET task_iter == build_TaskIt(fac_factory, proc_id)
          IN IF task_iter.err
             THEN fac_fatal' = TRUE /\ UNCHANGED fac_its
             ELSE /\ fac_its' = [fac_its EXCEPT ![proc_id + 1] =
                                   [built |-> TRUE, task_iter |-> task_iter,
                                    index_start_1D |-> task_iter.next_index_1D_,
                                    yielded |-> <<>>]]
                  /\ UNCHANGED fac_fatal
  /\ UNCHANGED <<fac_args, fac_factory, not_fac_vars>>

\* TaskIt::next on a TaskIt for which has_next() is true
Factory_TaskIt_next ==
  /\ fac_factory # <<>>
  /\ ~fac_fatal
  /\ \E proc_id \in 0..(Len(fac_its) - 1) :
       /\ fac_its[proc_id + 1].built
       /\ TaskIt_has_next(fac_its[proc_id + 1].task_iter)
       /\ LET it == fac_its[proc_id + 1]
              out == TaskIt_next_task(it.task_iter)
          IN IF out.err
             THEN fac_fatal' = TRUE /\ UNCHANGED fac_its
             ELSE /\ fac_its' = [fac_its EXCEPT ![proc_id + 1] =
                                   [it EXCEPT
                                      !.task_iter = TaskIt_after_next(it.task_iter),
                                      !.yielded = Append(@,
                                         [index_1D |-> it.task_iter.next_index_1D_,
                                          index_2D |-> it.task_iter.next_index_2D_,
                                          task |-> out])]]
                  /\ UNCHANGED fac_fatal
  /\ UNCHANGED <<fac_args, fac_factory, not_fac_vars>>

NextFactory ==
  \/ Factory_Construct
  \/ Factory_build_TaskIt
  \/ Factory_TaskIt_next

SpecFactory == InitFactory /\ [][NextFactory]_vars

\* ------------------------------------------------------------------------
\* SpecCompound: one CompoundAccumCollection of two or three member
\* collections of different types, unweighted or weighted, takes add_entry
\* calls and is consolidated with other objects of its type; then its values
\* are copied out, its props are asked for, or values are imported
\* ------------------------------------------------------------------------
CompoundTuples ==
  {<<AccumKind("central", 1, FALSE), AccumKind("histogram", 1, FALSE)>>,
   <<AccumKind("central", 2, FALSE), AccumKind("central", 1, FALSE)>>,
   <<AccumKind("histogram", 1, FALSE), AccumKind("origin", 2, FALSE),
     AccumKind("central", 1, FALSE)>>,
   <<AccumKind("central", 1, TRUE), AccumKind("histogram", 1, TRUE)>>}

\* the size of the buffer of type T that holds every member's values
Compound_BufferSize(tuple, T) ==
  SumSeq([m \in DOMAIN tuple |-> BufferSize(tuple[m], T)])

InitCompound ==
  /\ \E kinds \in CompoundTuples, n_spatial_bins \in SpatialBinCounts :
       accum_collec_tuple_ = [m \in DOMAIN kinds |-> NewCollection(kinds[m], n_spatial_bins)]
  /\ cmp_op = "none"
  /\ cmp_fatal = FALSE
  /\ cmp_props = <<>>
  /\ cmp_out_i64_vals = <<>>
  /\ cmp_out_flt_vals = <<>>
  /\ cmp_n_entries = 0
  /\ IdleBut("cmp")

Compound_AddEntry ==
  /\ cmp_op = "none"
  /\ cmp_n_entries < MaxCollEntries
  /\ \E spatial_bin_index \in 0..(accum_collec_tuple_[1].n_spatial_bins_ - 1),
        val \in CollValues :
       LET rslt == Compound_add_entry(accum_collec_tuple_, spatial_bin_index, val)
       IN /\ cmp_fatal' = rslt.err
          /\ accum_collec_tuple_' = rslt.accum_collec_tuple_
          /\ cmp_op' = IF rslt.err THEN "add_entry" ELSE "none"
          /\ cmp_n_entries' = IF rslt.err THEN cmp_n_entries ELSE cmp_n_entries + 1
  /\ UNCHANGED <<cmp_props, cmp_out_i64_vals, cmp_out_flt_vals>>
  /\ UNCHANGED not_cmp_vars

\* add_entry(spatial_bin_index, val, weight)
Compound_AddEntryWeighted ==
  /\ cmp_op = "none"
  /\ cmp_n_entries < MaxCollEntries
  /\ \E spatial_bin_index \in 0..(accum_collec_tuple_[1].n_spatial_bins_ - 1),
        val \in CollValues, weight \in CollWeights :
       accum_collec_tuple_' =
         Compound_add_entry_w(accum_collec_tuple_, spatial_bin_index, val, weight)
  /\ cmp_n_entries' = cmp_n_entries + 1
  /\ UNCHANGED <<cmp_op, cmp_fatal, cmp_props, cmp_out_i64_vals, cmp_out_flt_vals>>
  /\ UNCHANGED not_cmp_vars

\* the collections consolidate_with_other is given: another object of the
\* type of tuple, of either number of spatial bins, that has taken no
\* entry, one, or two
Compound_Others(tuple) ==
  UNION {
    LET fresh == [m \in DOMAIN tuple |-> NewCollection(tuple[m].kind, n_spatial_bins)]
    IN {[accum_collec_tuple_ |-> fresh, n_entries |-> 0]}
         \cup {[accum_collec_tuple_ |-> Compound_add_entry_w(fresh, 0, v, 1),
                 n_entries |-> 1] : v \in CollValues}
         \cup {[accum_collec_tuple_ |->
                   Compound_add_entry_w(Compound_add_entry_w(fresh, 0, v, 1),
                                        n_spatial_bins - 1, w, 1),
                 n_entries |-> 2] : v \in CollValues, w \in CollValues}
    : n_spatial_bins \in SpatialBinCounts }

\* consolidate_with_other(other): a member of other whose shape differs ends
\* the call in error().  As in SpecColl, a merge whose total weight is zero
\* is not taken
Compound_ConsolidateWithOther ==
  /\ cmp_op = "none"
  /\ \E other \in Compound_Others(accum_collec_tuple_) :
       /\ cmp_n_entries + other.n_entries <= MaxCollEntries
       /\ \A m \in DOMAIN accum_collec_tuple_ :
            IF Coll_mismatch(accum_collec_tuple_[m], other.accum_collec_tuple_[m])
            THEN TRUE
            ELSE Coll_merge_is_finite(accum_collec_tuple_[m],
                                      other.accum_collec_tuple_[m])
       /\ LET rslt == Compound_consolidate_with_other(accum_collec_tuple_,
                                                      other.accum_collec_tuple_)
          IN /\ cmp_fatal' = rslt.err
             /\ accum_collec_tuple_' = rslt.accum_collec_tuple_
             /\ cmp_op' = IF rslt.err THEN "consolidate_with_other" ELSE "none"
             /\ cmp_n_entries' =
                  IF rslt.err THEN cmp_n_entries ELSE cmp_n_entries + other.n_entries
  /\ UNCHANGED <<cmp_props, cmp_out_i64_vals, cmp_out_flt_vals>>
  /\ UNCHANGED not_cmp_vars

\* copy_vals<int64_t> and copy_vals<double> into buffers of the members' sizes
Compound_CopyVals ==
  /\ cmp_op = "none"
  /\ cmp_out_i64_vals' =
       Compound_copy_vals(accum_collec_tuple_, "i64",
         NewBuffer("i64", Compound_BufferSize(accum_collec_tuple_, "i64")))
  /\ cmp_out_flt_vals' =
       Compound_copy_vals(accum_collec_tuple_, "flt",
         NewBuffer("flt", Compound_BufferSize(accum_collec_tuple_, "flt")))
  /\ cmp_op' = "copy_vals"
  /\ UNCHANGED <<accum_collec_tuple_, cmp_fatal, cmp_props, cmp_n_entries>>
  /\ UNCHANGED not_cmp_vars

\* flt_val_props() or i64_val_props()
Compound_ValProps ==
  /\ cmp_op = "none"
  /\ \E T \in {"i64", "flt"} :
       LET rslt == Compound_val_props(accum_collec_tuple_, T)
       IN /\ cmp_fatal' = rslt.err
          /\ cmp_props' = rslt.props
          /\ cmp_op' = IF T = "i64" THEN "i64_val_props" ELSE "flt_val_props"
  /\ UNCHANGED <<accum_collec_tuple_, cmp_out_i64_vals, cmp_out_flt_vals, cmp_n_entries>>
  /\ UNCHANGED not_cmp_vars

\* import_vals of a buffer that copy_vals has written
Compound_ImportVals ==
  /\ cmp_op = "copy_vals"
  /\ \E T \in {"i64", "flt"} :
       LET rslt == Compound_import_vals(accum_collec_tuple_, T,
                     IF T = "i64" THEN cmp_out_i64_vals ELSE cmp_out_flt_vals)
       IN /\ cmp_fatal' = rslt.err
          /\ accum_collec_tuple_' = rslt.accum_collec_tuple_
  /\ cmp_op' = "import_vals"
  /\ UNCHANGED <<cmp_props, cmp_out_i64_vals, cmp_out_flt_vals, cmp_n_entries>>
  /\ UNCHANGED not_cmp_vars

NextCompound ==
  \/ Compound_AddEntry
  \/ Compound_AddEntryWeighted
  \/ Compound_ConsolidateWithOther
  \/ Compound_CopyVals
  \/ Compound_ValProps
  \/ Compound_ImportVals

SpecCompound == InitCompound /\ [][NextCompound]_vars

\* ------------------------------------------------------------------------
\* Spec: one call of calc_vsf_props.  The point sets lie on the x axis; the
\* values are multiples of (3, 4, 0), so that every |dv| is an integer.
\* calc_vsf_props_parallel_ constructs the TaskItFactory with the default
\* skip_small_prob_check = false, so a problem is split among several
\* workers only when it is not small: two sets of LargeDrvPoints points
\* each have more than 1000 pairs (LargeCalls).  An auto calculation is
\* split only above 1000 points, which is more than 500000 pairs.
\* ------------------------------------------------------------------------
XsA(i) == (3 * i) \div 2
CsA(i) == i % 3
XsB(j) == (5 * j) \div 2
CsB(j) == (j + 1) % 3

\* the positions array of n points: x of point i at [i], y at [i + n], z at
\* [i + 2n]
PositionsA(n) ==
  [k \in 1..(3 * n) |-> IF (k - 1) \div n = 0 THEN XsA((k - 1) % n) ELSE 0]
PositionsB(n) ==
  [k \in 1..(3 * n) |-> IF (k - 1) \div n = 0 THEN XsB((k - 1) % n) ELSE 0]

\* the values array of n points, laid out in the same way
ValuesA(n) ==
  [k \in 1..(3 * n) |->
     CsA((k - 1) % n) * (CASE (k - 1) \div n = 0 -> 3 [] (k - 1) \div n = 1 -> 4
                           [] OTHER -> 0)]
ValuesB(n) ==
  [k \in 1..(3 * n) |->
     CsB((k - 1) % n) * (CASE (k - 1) \div n = 0 -> 3 [] (k - 1) \div n = 1 -> 4
                           [] OTHER -> 0)]

PointsA(n) == PointProps(Ptr(PositionsA(n)), Ptr(ValuesA(n)), n, 3, n)
PointsB(n) == PointProps(Ptr(PositionsB(n)), Ptr(ValuesB(n)), n, 3, n)

\* points_b with both pointers null: the second set is the first
SameAsA == PointProps(NullPtr, NullPtr, 0, 3, 0)

SpatialEdges == {<<0, 2, 5>>, <<-1, 1, 3>>}
DataBinEdges == <<2, 5, 10>>
StatLists == {[statistic |-> "mean", data_bin_edges |-> <<>>],
              [statistic |-> "histogram", data_bin_edges |-> DataBinEdges]}
NoEnv == [set |-> FALSE, val |-> 0]

\* nproc and OMP_NUM_THREADS: the variable is read only when nproc is 0
WorkerCounts ==
  {[nproc |-> n, env |-> NoEnv] : n \in {1, 2, 4, 61}}
    \cup {[nproc |-> 0, env |-> e] :
            e \in {NoEnv, [set |-> TRUE, val |-> 0], [set |-> TRUE, val |-> 2]}}

Call(points_a, points_b, pairwise_op, stat_list, edges, nbins, nproc, force_sequential, env, openmp) ==
  [points_a |-> points_a, points_b |-> points_b, pairwise_op |-> pairwise_op,
   stat_list |-> stat_list, bin_edges |-> edges, nbins |-> nbins,
   parallel_spec |-> [nproc |-> nproc, force_sequential |-> force_sequential],
   OMP_NUM_THREADS |-> env, openmp |-> openmp]

\* calls that pass the validation of calc_vsf_props; points_b is null, the
\* same arrays as points_a passed a second time, or a set of its own
RegularCalls ==
  UNION {
    {Call(PointsA(n_a), b, op, st, e, Len(e) - 1, wc.nproc, fs, wc.env, omp) :
       b \in {SameAsA, PointsA(n_a)} \cup {PointsB(n_b) : n_b \in 0..MaxDrvPointsB},
       op \in {"sf", "correlate"}, st \in StatLists, e \in SpatialEdges,
       wc \in WorkerCounts, fs \in BOOLEAN, omp \in BOOLEAN}
    : n_a \in 0..MaxDrvPoints }

\* the correlate calls of RegularCalls over two sets, with the sets in the
\* other order
SwappedCalls ==
  {Call(PointsB(n_b), PointsA(n_a), "correlate", st, e, Len(e) - 1, nproc, FALSE, NoEnv, TRUE) :
     n_a \in 0..MaxDrvPoints, n_b \in 0..MaxDrvPointsB, st \in StatLists,
     e \in SpatialEdges, nproc \in {1, 2, 4}}

\* calls over two sets that are not a small problem: the sets have more
\* than 1000 pairs, so that the cross strategy is split among the workers
LargeCalls ==
  {Call(PointsA(LargeDrvPoints), PointsB(LargeDrvPoints), op, st, e, Len(e) - 1,
        wc.nproc, fs, wc.env, TRUE) :
     op \in {"sf", "correlate"}, st \in StatLists, e \in {<<0, 2, 5>>},
     wc \in {[nproc |-> n, env |-> NoEnv] : n \in {1, 2, 4}}, fs \in BOOLEAN}

\* the two worked auto calculations with statistic mean: two points at x = 0
\* and 1 with values (0,0,0) and (3,4,0) and the one bin [0, 10); three
\* collinear points at x = 0, 1, 3 with values (1,0,0), (2,0,0), (5,0,0) and
\* bins [0, 1.5), [1.5, 5), here with every length in units of 1/2 (x = 0,
\* 2, 6 and edges 0, 3, 10)
TwoPointCall(nproc) ==
  Call(PointsA(2), SameAsA, "sf", [statistic |-> "mean", data_bin_edges |-> <<>>],
       <<0, 10>>, 1, nproc, FALSE, NoEnv, TRUE)
CollinearCall(nproc) ==
  Call(PointProps(Ptr(<<0, 2, 6, 0, 0, 0, 0, 0, 0>>),
                  Ptr(<<1, 2, 5, 0, 0, 0, 0, 0, 0>>), 3, 3, 3),
       SameAsA, "sf", [statistic |-> "mean", data_bin_edges |-> <<>>],
       <<0, 3, 10>>, 2, nproc, FALSE, NoEnv, TRUE)
ExampleCalls ==
  {TwoPointCall(nproc) : nproc \in {1, 2}} \cup {CollinearCall(nproc) : nproc \in {1, 2}}

\* calls with one argument out of the ordinary: no bins, a set that is not
\* three-dimensional, a null pointer of points_a, an unknown pairwise_op, or
\* exactly one null pointer of points_b
IrregularCalls ==
  LET a == PointsA(2)
      b == PointsB(1)
      e == <<0, 2, 5>>
      base(pa, pb, op, edges, nbins, nproc) ==
        Call(pa, pb, op, [statistic |-> "mean", data_bin_edges |-> <<>>],
             edges, nbins, nproc, FALSE, NoEnv, TRUE)
  IN UNION {
       { base(a, pb, "sf", <<0>>, 0, nproc),
         base([a EXCEPT !.n_spatial_dims = 2], pb, "sf", e, 2, nproc),
         base(a, [b EXCEPT !.n_spatial_dims = 2], "sf", e, 2, nproc),
         base([a EXCEPT !.positions = NullPtr], pb, "sf", e, 2, nproc),
         base([a EXCEPT !.values = NullPtr], pb, "correlate", e, 2, nproc),
         base(a, pb, "SF", e, 2, nproc),
         base(a, [b EXCEPT !.positions = NullPtr], "sf", e, 2, nproc),
         base(a, [b EXCEPT !.values = NullPtr], "correlate", e, 2, nproc) }
       : pb \in {SameAsA, b}, nproc \in {1, 2} }

\* the caller's buffer for the values of type T, sized from the props of
\* the collection the statistics resolve to
CallerBuffer(call, T) ==
  IF call.nbins = 0 THEN NewBuffer(T, 1)
  ELSE NewBuffer(T, BufferSize(build_accum_collection(call.stat_list, call.nbins), T))

NoTaskIt == TaskIt(0, 1, AutoStrat(0, 0))
NoFactory == [err |-> FALSE, nproc_ |-> 0, partition_strat_ |-> AutoStrat(0, 0)]

Init ==
  /\ drv_call \in RegularCalls \cup SwappedCalls \cup ExampleCalls \cup IrregularCalls
                   \cup LargeCalls
  /\ drv_pc = "call"
  /\ drv_edges = <<>>
  /\ drv_accumulators = NoCollection
  /\ drv_factory = NoFactory
  /\ drv_partition_dest = <<>>
  /\ drv_workers = <<>>
  /\ drv_returned = "none"
  /\ drv_ub = FALSE
  /\ drv_out_flt_vals = CallerBuffer(drv_call, "flt")
  /\ drv_out_i64_vals = CallerBuffer(drv_call, "i64")
  /\ par_initial = <<>>
  /\ IdleBut("drv")

\* const bool duplicated_points of calc_vsf_props
is_duplicated_points(call) ==
  call.points_b.positions.null /\ call.points_b.values.null

my_points_b(call) ==
  IF is_duplicated_points(call) THEN call.points_a ELSE call.points_b

\* the validation of calc_vsf_props with the test of my_points_b left out
calc_vsf_props_rejects_no_b(call) ==
  \/ call.nbins = 0
  \/ call.points_a.n_spatial_dims # 3
  \/ call.points_a.positions.null \/ call.points_a.values.null
  \/ call.pairwise_op \notin {"correlate", "sf"}

\* the validation of calc_vsf_props: TRUE where it returns false
calc_vsf_props_rejects(call) ==
  \/ call.nbins = 0
  \/ call.points_a.n_spatial_dims # 3
  \/ my_points_b(call).n_spatial_dims # 3
  \/ call.points_a.positions.null \/ call.points_a.values.null
  \/ call.pairwise_op \notin {"correlate", "sf"}

\* const bool use_serial, under #ifdef _OPENMP and without
use_serial(call) == IF call.openmp THEN call.parallel_spec.nproc = 1 ELSE TRUE

\* const bool use_parallel of calc_vsf_props_parallel_
use_parallel == (~drv_call.parallel_spec.force_sequential) /\ (Len(drv_workers) > 1)

\* the call ends in error(): the process exits
Fatal ==
  /\ drv_returned' = "fatal"
  /\ drv_pc' = "done"
  /\ UNCHANGED <<drv_ub, drv_out_flt_vals, drv_out_i64_vals>>

\* what a cell of an output buffer of type T can hold after the call went
\* on with memory that is not its own: what the caller left there, or a
\* value computed from what was read, here one of 0..MaxUndefinedValue
UndefinedVals(T) ==
  {Garbage(T)} \cup {IF T = "i64" THEN v ELSE RInt(v) : v \in 0..MaxUndefinedValue}

\* the call has read through a null pointer or outside an array: it may
\* crash, or go on with whatever it read, fill the buffers from it and
\* return true
Undefined ==
  /\ drv_ub' = TRUE
  /\ drv_pc' = "done"
  /\ drv_returned' \in {"true", "crash"}
  /\ IF drv_returned' = "true"
     THEN /\ drv_out_flt_vals' \in [DOMAIN drv_out_flt_vals -> UndefinedVals("flt")]
          /\ drv_out_i64_vals' \in [DOMAIN drv_out_i64_vals -> UndefinedVals("i64")]
     ELSE UNCHANGED <<drv_out_flt_vals, drv_out_i64_vals>>

\* the two std::visit calls that end calc_vsf_props, and return true
CopyOutAndReturn(accums) ==
  /\ drv_out_flt_vals' = Coll_copy_vals(accums, "flt", drv_out_flt_vals)
  /\ drv_out_i64_vals' = Coll_copy_vals(accums, "i64", drv_out_i64_vals)
  /\ drv_returned' = "true"
  /\ drv_pc' = "done"
  /\ UNCHANGED drv_ub

\* calc_vsf_props where the validation fails
Reject ==
  /\ drv_pc = "call"
  /\ calc_vsf_props_rejects(drv_call)
  /\ drv_returned' = "false"
  /\ drv_pc' = "done"
  /\ UNCHANGED <<drv_call, drv_edges, drv_accumulators, drv_factory,
                 drv_partition_dest, drv_workers, drv_ub, drv_out_flt_vals,
                 drv_out_i64_vals>>
  /\ UNCHANGED not_drv_vars

\* calc_vsf_props with use_serial: calc_vsf_props_helper_ over all points
RunSerial ==
  /\ drv_pc = "call"
  /\ ~calc_vsf_props_rejects(drv_call)
  /\ use_serial(drv_call)
  /\ drv_edges' = dist_sqr_bin_edges_vec(drv_call.bin_edges, drv_call.nbins)
  /\ LET done == process_data(drv_call.points_a, my_points_b(drv_call), drv_edges',
                              drv_call.nbins,
                              build_accum_collection(drv_call.stat_list, drv_call.nbins),
                              is_duplicated_points(drv_call), drv_call.pairwise_op)
     IN /\ drv_accumulators' = done.accumulators
        /\ IF done.ub THEN Undefined ELSE CopyOutAndReturn(done.accumulators)
  /\ UNCHANGED <<drv_call, drv_factory, drv_partition_dest, drv_workers>>
  /\ UNCHANGED not_drv_vars

\* calc_vsf_props without use_serial, up to the parallel region of
\* calc_vsf_props_parallel_
EnterParallel ==
  /\ drv_pc = "call"
  /\ ~calc_vsf_props_rejects(drv_call)
  /\ ~use_serial(drv_call)
  /\ drv_edges' = dist_sqr_bin_edges_vec(drv_call.bin_edges, drv_call.nbins)
  /\ drv_accumulators' = build_accum_collection(drv_call.stat_list, drv_call.nbins)
  /\ LET nominal_nproc == get_nominal_nproc_(drv_call.parallel_spec,
                                             drv_call.OMP_NUM_THREADS)
         made == TaskItFactory(nominal_nproc.nproc, drv_call.points_a.n_points,
                                IF is_duplicated_points(drv_call) THEN 0
                                ELSE drv_call.points_b.n_points,
                                FALSE)
     IN IF nominal_nproc.err \/ made.err
        THEN /\ Fatal
             /\ UNCHANGED <<drv_factory, drv_partition_dest, drv_workers>>
        ELSE /\ drv_factory' = made
             /\ drv_partition_dest' =
                  [i \in 1..effective_nproc(made) |-> drv_accumulators']
             /\ drv_workers' =
                  [i \in 1..effective_nproc(made) |->
                     [phase |-> "idle", local_accums |-> NoCollection,
                      task_iter |-> NoTaskIt]]
             /\ drv_pc' = "parallel"
             /\ UNCHANGED <<drv_returned, drv_ub, drv_out_flt_vals, drv_out_i64_vals>>
  /\ UNCHANGED drv_call
  /\ UNCHANGED not_drv_vars

\* iteration proc_id of the omp for loop starts: local_accums is copied from
\* partition_dest[proc_id] and the TaskIt is built.  Without use_parallel one
\* thread runs the iterations in order
WorkerStart ==
  \E proc_id \in 0..(Len(drv_workers) - 1) :
    /\ drv_pc = "parallel"
    /\ drv_workers[proc_id + 1].phase = "idle"
    /\ use_parallel \/ \A q \in 1..proc_id : drv_workers[q].phase = "stored"
    /\ LET task_iter == build_TaskIt(drv_factory, proc_id)
       IN IF task_iter.err
          THEN Fatal /\ UNCHANGED drv_workers
          ELSE /\ drv_workers' =
                    [drv_workers EXCEPT ![proc_id + 1] =
                       [phase |-> "run",
                        local_accums |-> drv_partition_dest[proc_id + 1],
                        task_iter |-> task_iter]]
               /\ UNCHANGED <<drv_pc, drv_returned, drv_ub, drv_out_flt_vals,
                              drv_out_i64_vals>>
    /\ UNCHANGED <<drv_call, drv_edges, drv_accumulators, drv_factory,
                   drv_partition_dest>>
    /\ UNCHANGED not_drv_vars

\* one turn of the while loop of process_TaskIt_ in iteration proc_id
WorkerTask ==
  \E proc_id \in 0..(Len(drv_workers) - 1) :
    /\ drv_pc = "parallel"
    /\ drv_workers[proc_id + 1].phase = "run"
    /\ TaskIt_has_next(drv_workers[proc_id + 1].task_iter)
    /\ LET w == drv_workers[proc_id + 1]
           stat_task == TaskIt_next_task(w.task_iter)
           done == process_StatTask(drv_call.points_a, my_points_b(drv_call),
                                    drv_edges, drv_call.nbins, w.local_accums,
                                    is_duplicated_points(drv_call), stat_task,
                                    drv_call.pairwise_op)
       IN IF stat_task.err THEN Fatal /\ UNCHANGED drv_workers
          ELSE IF done.ub THEN Undefined /\ UNCHANGED drv_workers
          ELSE /\ drv_workers' =
                    [drv_workers EXCEPT ![proc_id + 1] =
                       [phase |-> "run", local_accums |-> done.accumulators,
                        task_iter |-> TaskIt_after_next(w.task_iter)]]
               /\ UNCHANGED <<drv_pc, drv_returned, drv_ub, drv_out_flt_vals,
                              drv_out_i64_vals>>
    /\ UNCHANGED <<drv_call, drv_edges, drv_accumulators, drv_factory,
                   drv_partition_dest>>
    /\ UNCHANGED not_drv_vars

\* iteration proc_id ends, with every worker storing into partition_dest[0]
WorkerStore_shared ==
  \E proc_id \in 0..(Len(drv_workers) - 1) :
    /\ drv_pc = "parallel"
    /\ drv_workers[proc_id + 1].phase = "run"
    /\ ~TaskIt_has_next(drv_workers[proc_id + 1].task_iter)
    /\ drv_partition_dest' =
         [drv_partition_dest EXCEPT ![1] = drv_workers[proc_id + 1].local_accums]
    /\ drv_workers' = [drv_workers EXCEPT ![proc_id + 1].phase = "stored"]
    /\ UNCHANGED <<drv_call, drv_pc, drv_edges, drv_accumulators, drv_factory,
                   drv_returned, drv_ub, drv_out_flt_vals, drv_out_i64_vals>>
    /\ UNCHANGED not_drv_vars

\* iteration proc_id ends: partition_dest[proc_id] = local_accums
WorkerStore ==
  \E proc_id \in 0..(Len(drv_workers) - 1) :
    /\ drv_pc = "parallel"
    /\ drv_workers[proc_id + 1].phase = "run"
    /\ ~TaskIt_has_next(drv_workers[proc_id + 1].task_iter)
    /\ drv_partition_dest' =
         [drv_partition_dest EXCEPT ![proc_id + 1] = drv_workers[proc_id + 1].local_accums]
    /\ drv_workers' = [drv_workers EXCEPT ![proc_id + 1].phase = "stored"]
    /\ UNCHANGED <<drv_call, drv_pc, drv_edges, drv_accumulators, drv_factory,
                   drv_returned, drv_ub, drv_out_flt_vals, drv_out_i64_vals>>
    /\ UNCHANGED not_drv_vars

\* after the barrier: the consolidation loop of calc_vsf_props_parallel_,
\* then the end of calc_vsf_props
Consolidate ==
  /\ drv_pc = "parallel"
  /\ \A q \in 1..Len(drv_workers) : drv_workers[q].phase = "stored"
  /\ IF \E i \in 2..Len(drv_partition_dest) :
          Coll_mismatch(drv_partition_dest[1], drv_partition_dest[i])
     THEN Fatal /\ UNCHANGED drv_accumulators
     ELSE /\ drv_accumulators' = consolidate_loop(drv_partition_dest[1],
                                                  drv_partition_dest, 2)
          /\ CopyOutAndReturn(drv_accumulators')
  /\ UNCHANGED <<drv_call, drv_edges, drv_factory, drv_partition_dest, drv_workers>>
  /\ UNCHANGED not_drv_vars

Next ==
  \/ Reject
  \/ RunSerial
  \/ EnterParallel
  \/ WorkerStart
  \/ WorkerTask
  \/ WorkerStore
  \/ Consolidate

Spec == Init /\ [][Next]_vars

\* ------------------------------------------------------------------------
\* SpecPrefilled: calc_vsf_props_parallel_ called on its own, in a build with
\* OpenMP, with an accumulators argument that already holds entries; the
\* workers and the consolidation are those of Spec, and the accumulators
\* are copied to the output buffers at the end
\* ------------------------------------------------------------------------
\* k calls of add_entry(spatial_bin_index, val) on a collection
RECURSIVE Prefill(_, _, _, _)
Prefill(c, spatial_bin_index, val, k) ==
  IF k = 0 THEN c
  ELSE Prefill(Coll_add_entry(c, spatial_bin_index, val), spatial_bin_index, val, k - 1)

PrefilledCalls ==
  {c \in RegularCalls \cup LargeCalls : c.openmp /\ c.pairwise_op = "correlate"
                          /\ c.bin_edges = <<0, 2, 5>> /\ c.parallel_spec.nproc \in {1, 2, 4}}

InitPrefilled ==
  /\ drv_call \in PrefilledCalls
  /\ drv_pc = "call"
  /\ drv_edges = <<>>
  /\ drv_accumulators = NoCollection
  /\ drv_factory = NoFactory
  /\ drv_partition_dest = <<>>
  /\ drv_workers = <<>>
  /\ drv_returned = "none"
  /\ drv_ub = FALSE
  /\ drv_out_flt_vals = CallerBuffer(drv_call, "flt")
  /\ drv_out_i64_vals = CallerBuffer(drv_call, "i64")
  /\ \E k \in 0..MaxInitialEntries, s \in 0..(drv_call.nbins - 1) :
       par_initial = Prefill(build_accum_collection(drv_call.stat_list, drv_call.nbins),
                             s, 3, k)
  /\ IdleBut("drv")

\* the start of calc_vsf_props_parallel_ with the caller's accumulators kept
\* in partition_dest[0] only and purged copies for the other workers
EnterParallelPrefilled_one_clone ==
  /\ drv_pc = "call"
  /\ drv_edges' = dist_sqr_bin_edges_vec(drv_call.bin_edges, drv_call.nbins)
  /\ drv_accumulators' = par_initial
  /\ LET nominal_nproc == get_nominal_nproc_(drv_call.parallel_spec,
                                             drv_call.OMP_NUM_THREADS)
         made == TaskItFactory(nominal_nproc.nproc, drv_call.points_a.n_points,
                                IF is_duplicated_points(drv_call) THEN 0
                                ELSE drv_call.points_b.n_points,
                                FALSE)
     IN IF nominal_nproc.err \/ made.err
        THEN /\ Fatal
             /\ UNCHANGED <<drv_factory, drv_partition_dest, drv_workers>>
        ELSE /\ drv_factory' = made
             /\ drv_partition_dest' =
                  [i \in 1..effective_nproc(made) |-> IF i = 1 THEN drv_accumulators'
                     ELSE build_accum_collection(drv_call.stat_list, drv_call.nbins)]
             /\ drv_workers' =
                  [i \in 1..effective_nproc(made) |->
                     [phase |-> "idle", local_accums |-> NoCollection,
                      task_iter |-> NoTaskIt]]
             /\ drv_pc' = "parallel"
             /\ UNCHANGED <<drv_returned, drv_ub, drv_out_flt_vals, drv_out_i64_vals>>
  /\ UNCHANGED drv_call
  /\ UNCHANGED not_drv_vars

\* the start of calc_vsf_props_parallel_: the factory is built and
\* partition_dest is filled with nproc copies of the caller's accumulators
EnterParallelPrefilled ==
  /\ drv_pc = "call"
  /\ drv_edges' = dist_sqr_bin_edges_vec(drv_call.bin_edges, drv_call.nbins)
  /\ drv_accumulators' = par_initial
  /\ LET nominal_nproc == get_nominal_nproc_(drv_call.parallel_spec,
                                             drv_call.OMP_NUM_THREADS)
         made == TaskItFactory(nominal_nproc.nproc, drv_call.points_a.n_points,
                                IF is_duplicated_points(drv_call) THEN 0
                                ELSE drv_call.points_b.n_points,
                                FALSE)
     IN IF nominal_nproc.err \/ made.err
        THEN /\ Fatal
             /\ UNCHANGED <<drv_factory, drv_partition_dest, drv_workers>>
        ELSE /\ drv_factory' = made
             /\ drv_partition_dest' =
                  [i \in 1..effective_nproc(made) |-> drv_accumulators']
             /\ drv_workers' =
                  [i \in 1..effective_nproc(made) |->
                     [phase |-> "idle", local_accums |-> NoCollection,
                      task_iter |-> NoTaskIt]]
             /\ drv_pc' = "parallel"
             /\ UNCHANGED <<drv_returned, drv_ub, drv_out_flt_vals, drv_out_i64_vals>>
  /\ UNCHANGED drv_call
  /\ UNCHANGED not_drv_vars

NextPrefilled ==
  \/ EnterParallelPrefilled
  \/ WorkerStart
  \/ WorkerTask
  \/ WorkerStore
  \/ Consolidate

SpecPrefilled == InitPrefilled /\ [][NextPrefilled]_vars

\* ------------------------------------------------------------------------
\* Properties of the partitioner
\* ------------------------------------------------------------------------
\* C3: for 1 <= S <= L and 0 <= i < S, calc_chunk_slice(i, L, S) raises no
\* error and returns [start, stop) of size floor(L/S) + (1 if i < L mod S);
\* slice 0 starts at 0, slice i+1 starts where slice i stops and slice S-1
\* stops at L; so every chunk is non-empty and sizes differ by at most one.
C3_ChunkSliceTiles ==
  chunk_index >= 0 =>
    LET q == array_len \div num_chunks
        size == slc.stop - slc.start
    IN /\ ~slc.err
       /\ size = q + (IF chunk_index < array_len % num_chunks THEN 1 ELSE 0)
       /\ size \in {q, q + 1}
       /\ size >= 1
       /\ (chunk_index = 0 => slc.start = 0)
       /\ (chunk_index > 0 => slc.start = prev_slc.stop)
       /\ (chunk_index = num_chunks - 1 => slc.stop = array_len)

\* the last of at least three uneven chunks has been computed
C3_Witness ==
  /\ num_chunks >= 3
  /\ array_len % num_chunks >= 1
  /\ chunk_index = num_chunks - 1
  /\ slc.stop = array_len
  /\ prev_slc.stop - prev_slc.start = slc.stop - slc.start + 1

\* times the unordered pair {p, q} has been enumerated, in either order
UnorderedVisits(p, q) == visits[<<p, q>>] + visits[<<q, p>>]

\* C1: the tasks of an auto strategy over N >= 2 points and 1 <= S <= N-1
\* segments, expanded as the kernel expands them, never enumerate a
\* self-pair, enumerate no unordered pair {p, q} twice (within a task or
\* across tasks), and once all S(S+1)/2 tasks are done have enumerated
\* every unordered pair with p < q exactly once.
C1_AutoCoversPairsOnce ==
  partition_strat_.kind = "auto" /\ partition_strat_.n_points >= 2 =>
    LET n == partition_strat_.n_points
    IN /\ \A k \in 1..Len(tasks) : ~tasks[k].err
       /\ \A p \in 0..(n - 1) : visits[<<p, p>>] = 0
       /\ \A p \in 0..(n - 1) : \A q \in (p + 1)..(n - 1) :
            /\ UnorderedVisits(p, q) <= 1
            /\ (~has_next => UnorderedVisits(p, q) = 1)

\* every task of a three-segment (or finer) auto strategy has been expanded
C1_Witness ==
  /\ partition_strat_.kind = "auto"
  /\ partition_strat_.num_segments >= 3
  /\ partition_strat_.n_points > partition_strat_.num_segments + 1
  /\ ~has_next
  /\ Len(tasks) = n_partitions(partition_strat_)
  /\ \E k \in 1..Len(tasks) : tasks[k].stop_B > tasks[k].start_B

\* the rectangle [start_A, stop_A) x [start_B, stop_B) of a task
Rect(t) == (t.start_A..(t.stop_A - 1)) \X (t.start_B..(t.stop_B - 1))

\* C2: the rectangles of the tasks of a cross strategy with 1 <= S_A <= N_A
\* and 1 <= S_B <= N_B are pairwise disjoint, and the S_A*S_B of them
\* together are exactly [0, N_A) x [0, N_B).
C2_CrossCoversProductOnce ==
  partition_strat_.kind = "cross" =>
    LET all == PointPairs(partition_strat_.n_points, partition_strat_.n_points_B)
    IN /\ \A k \in 1..Len(tasks) : ~tasks[k].err /\ Rect(tasks[k]) \subseteq all
       /\ \A k \in 1..Len(tasks) : \A m \in (k + 1)..Len(tasks) :
            Rect(tasks[k]) \cap Rect(tasks[m]) = {}
       /\ (~has_next =>
             /\ Len(tasks) = partition_strat_.num_segments
                               * partition_strat_.num_segments_B
             /\ UNION {Rect(tasks[k]) : k \in 1..Len(tasks)} = all)

\* both axes split, into different numbers of uneven segments, all tasks built
C2_Witness ==
  /\ partition_strat_.kind = "cross"
  /\ partition_strat_.num_segments >= 2
  /\ partition_strat_.num_segments_B >= 2
  /\ partition_strat_.n_points # partition_strat_.n_points_B
  /\ ~has_next
  /\ Len(tasks) = partition_strat_.num_segments * partition_strat_.num_segments_B

\* ------------------------------------------------------------------------
\* Properties of the bin search
\* ------------------------------------------------------------------------
\* C4: for strictly increasing edges, identify_bin_index returns the unique
\* i with edges[i] <= x < edges[i+1] (bins closed on the left, open on the
\* right) and nbins when x < edges[0] or x >= edges[nbins]; so x = edges[i]
\* is in bin i and x = edges[nbins] is in no bin.
C4_BinsClosedOnTheLeft ==
  bin_ind >= 0 =>
    LET nbins == Len(bin_edges) - 1
    IN /\ \A i \in 0..(nbins - 1) :
            (bin_edges[i + 1] <= x /\ x < bin_edges[i + 2]) => bin_ind = i
       /\ (x < bin_edges[1] \/ x >= bin_edges[nbins + 1]) => bin_ind = nbins

\* ------------------------------------------------------------------------
\* Properties of the accumulators
\* ------------------------------------------------------------------------
\* C5: for unweighted central-moment accumulators of order 1, 2 and 3 and a
\* value sequence split into consecutive chunks of any sizes, adding each
\* chunk to a fresh accumulator and merging them left to right gives, in
\* exact arithmetic, the count, mean, M2 and M3 of adding the whole sequence
\* to one accumulator.
C5_MergeAgreesWithStreaming ==
  (chunk_sizes # <<>> /\ cur = NewAccum(acc_kind)) => merged = whole

\* ------------------------------------------------------------------------
\* Properties of the accumulator collections
\* ------------------------------------------------------------------------
\* C6: for every collection X reached by add_entry and merge calls,
\* X.consolidate_with_other(P) leaves every field of X unchanged and
\* P.consolidate_with_other(X) makes every field of P equal to X, where P is a
\* freshly purged collection of the same shape.
C6_PurgedIsMergeIdentity ==
  /\ (coll_op = "X_with_P" => coll_X = coll_snap)
  /\ (coll_op = "P_with_X" => coll_P = coll_snap)

\* C6 (amended): the same for every collection reached by add_entry calls
\* with non-negative weights and merge calls; a negative weight can bring a
\* weight sum back to zero with the moments not zero, and merging such an
\* accumulator with a purged one overwrites it.
C6_PurgedIsMergeIdentity_NonNegativeWeights ==
  (\A w \in coll_weights : w >= 0) => C6_PurgedIsMergeIdentity

\* a merged, non-purged collection met a purged one, from either side
C6_Witness ==
  /\ coll_op \in {"X_with_P", "P_with_X"}
  /\ coll_n_entries = MaxCollEntries
  /\ \A w \in coll_weights : w >= 0
  /\ coll_snap # Coll_purge(coll_snap)
  /\ coll_Y = Coll_purge(coll_Y)
  /\ coll_snap.n_spatial_bins_ = 2
  /\ coll_P = coll_snap

\* C7: copy_vals of X into an int64 and a double buffer, then import_vals of
\* both buffers on a purged collection of the same shape, gives a collection
\* whose every field equals X's.
C7_SerializationRoundTrips ==
  coll_op = "round_trip" => coll_P = coll_X

\* a multi-bin collection with two or more values per bin went through
C7_Witness ==
  /\ coll_op = "round_trip"
  /\ coll_X.n_spatial_bins_ = 2
  /\ coll_X # Coll_purge(coll_X)
  /\ coll_n_entries >= 2
  /\ coll_P = coll_X
  /\ \/ /\ ~IsHistogram(coll_X.kind)
        /\ coll_X.kind.Order >= 2
        /\ coll_X.accum_list_[1] # coll_X.accum_list_[2]
     \/ /\ IsHistogram(coll_X.kind)
        /\ \E i, j \in DOMAIN coll_X.bin_counts_ :
             coll_X.bin_counts_[i] # coll_X.bin_counts_[j]

\* ------------------------------------------------------------------------
\* Properties of calc_vsf_props
\* ------------------------------------------------------------------------
\* the cases in which the call is to be rejected: no bins, a point set (the
\* second being the first when both its pointers are null) that is not
\* three-dimensional, a null pointer of points_a, an unknown pairwise_op
C8_Rejecting ==
  LET a == drv_call.points_a
      b == IF drv_call.points_b.positions.null /\ drv_call.points_b.values.null
           THEN drv_call.points_a ELSE drv_call.points_b
  IN \/ drv_call.nbins = 0
     \/ a.n_spatial_dims # 3
     \/ b.n_spatial_dims # 3
     \/ a.positions.null
     \/ a.values.null
     \/ ~(drv_call.pairwise_op = "sf" \/ drv_call.pairwise_op = "correlate")

\* the call returned false, wrote neither buffer and built no accumulator
C8_RejectedCleanly ==
  /\ drv_returned = "false"
  /\ drv_out_flt_vals = CallerBuffer(drv_call, "flt")
  /\ drv_out_i64_vals = CallerBuffer(drv_call, "i64")
  /\ drv_accumulators = NoCollection

\* the inputs on which the parallel path ends in error(): an invalid
\* OMP_NUM_THREADS, an auto strategy (points_b null or empty) for at most one
\* point or for more than 60 workers, a cross strategy for an empty first set
C8_FatalInput ==
  \/ /\ drv_call.parallel_spec.nproc = 0
     /\ drv_call.OMP_NUM_THREADS.set
     /\ drv_call.OMP_NUM_THREADS.val <= 0
  \/ /\ \/ drv_call.points_b.positions.null /\ drv_call.points_b.values.null
        \/ drv_call.points_b.n_points = 0
     /\ \/ drv_call.points_a.n_points <= 1
        \/ drv_call.parallel_spec.nproc > 60
  \/ drv_call.points_a.n_points = 0

C8_ParallelPath == drv_call.openmp /\ drv_call.parallel_spec.nproc # 1

\* C8: calc_vsf_props returns false and leaves both output buffers unwritten
\* (and builds no accumulator) whenever nbins == 0, a point set is not
\* three-dimensional, a pointer of points_a is null or pairwise_op is neither
\* "sf" nor "correlate"; in every other case it returns true.
C8_RejectsOrReturnsTrue ==
  drv_pc = "done" =>
    IF C8_Rejecting THEN C8_RejectedCleanly ELSE drv_returned = "true"

\* C8 (amended): in the rejecting cases the call returns false, writes
\* neither buffer and builds no accumulator; in every other case it does not
\* return false: it returns true with the buffers written, or ends in a fatal
\* error, which happens exactly on the parallel path for the inputs of
\* C8_FatalInput, or its behaviour is undefined.
C8_RejectsOrDoesNotReturnFalse ==
  drv_pc = "done" =>
    IF C8_Rejecting THEN C8_RejectedCleanly
    ELSE /\ drv_returned # "false"
         /\ drv_accumulators # NoCollection
         /\ drv_ub \/
              IF C8_ParallelPath /\ C8_FatalInput
              THEN drv_returned = "fatal"
                   /\ drv_out_i64_vals = CallerBuffer(drv_call, "i64")
              ELSE drv_returned = "true"
                   /\ \A k \in DOMAIN drv_out_i64_vals :
                        drv_out_i64_vals[k] # Garbage("i64")

\* a call with a two-dimensional second set was rejected on the parallel path
C8_Witness ==
  /\ drv_pc = "done"
  /\ C8_RejectedCleanly
  /\ drv_call.points_b.n_spatial_dims # 3
  /\ ~drv_call.points_b.positions.null
  /\ drv_call.points_a.n_spatial_dims = 3
  /\ drv_call.parallel_spec.nproc = 2

\* what the serial path computes for the call: the int64 values of the
\* accumulators after process_data over the whole sets
C9_SerialI64 ==
  LET done == process_data(drv_call.points_a, my_points_b(drv_call),
                           dist_sqr_bin_edges_vec(drv_call.bin_edges, drv_call.nbins),
                           drv_call.nbins,
                           build_accum_collection(drv_call.stat_list, drv_call.nbins),
                           is_duplicated_points(drv_call), drv_call.pairwise_op)
  IN Coll_copy_vals(done.accumulators, "i64", CallerBuffer(drv_call, "i64"))

C9_Applies ==
  /\ drv_pc = "done"
  /\ ~C8_Rejecting
  /\ ~drv_ub
  /\ drv_call.parallel_spec.nproc \in {1, 2, 4}

\* C9: for identical point sets, edges and statistics the int64 outputs of a
\* calculation are the same for every nproc in {1, 2, 4}, whatever strategy
\* and number of segments the partitioner picks: each such call returns
\* with the int64 outputs of the nproc = 1 calculation.
C9_SameIntegersForEveryNproc ==
  C9_Applies => drv_returned = "true" /\ drv_out_i64_vals = C9_SerialI64

\* C9 (amended): every calculation with nproc in {1, 2, 4} that returns true
\* has written the int64 outputs of the nproc = 1 calculation; a calculation
\* that does not return true is one with nproc 2 or 4 that ended in a fatal
\* error, on an auto strategy for at most one point or a cross strategy for
\* an empty first set.
C9_SameIntegersWhereTheCallReturns ==
  C9_Applies =>
    /\ drv_returned = "true" => drv_out_i64_vals = C9_SerialI64
    /\ drv_returned # "true" =>
         drv_returned = "fatal" /\ C8_ParallelPath /\ C8_FatalInput

\* two or more workers, each with tasks, counted pairs and were consolidated
C9_Witness ==
  /\ C9_Applies
  /\ drv_returned = "true"
  /\ Len(drv_workers) >= 2
  /\ \A q \in 1..Len(drv_partition_dest) :
       drv_partition_dest[q] # Coll_purge(drv_partition_dest[q])
  /\ drv_out_i64_vals = C9_SerialI64
  /\ \E k \in DOMAIN drv_out_i64_vals : drv_out_i64_vals[k] >= 2

\* the pairs of points a calculation is over: unordered pairs of the one
\* set, or the product of the two sets
C10_Pairs ==
  IF is_duplicated_points(drv_call)
  THEN {pr \in (0..(drv_call.points_a.n_points - 1)) \X (0..(drv_call.points_a.n_points - 1)) :
          pr[1] < pr[2]}
  ELSE (0..(drv_call.points_a.n_points - 1)) \X (0..(drv_call.points_b.n_points - 1))

C10_Rslt(pr) ==
  calc_pair_rslt(drv_call.points_a, my_points_b(drv_call), pr[1], pr[2],
                 drv_call.pairwise_op)

C10_Applies ==
  /\ drv_pc = "done"
  /\ drv_returned = "true"
  /\ ~drv_ub
  /\ drv_call.stat_list.statistic = "histogram"

\* C10: after a run with a histogram statistic, the sum of bin_counts over
\* all spatial and data bins equals the number of enumerated pairs whose
\* dist_sqr lies in [edges[0], edges[nbins]) of the squared spatial edges.
C10_HistogramCountsPairsInRange ==
  C10_Applies =>
    SumSeq(drv_accumulators.bin_counts_) =
      Cardinality({pr \in C10_Pairs :
                     /\ drv_edges[1] <= C10_Rslt(pr).dist_sqr
                     /\ C10_Rslt(pr).dist_sqr < drv_edges[drv_call.nbins + 1]})

\* C10 (amended): the sum equals the number of enumerated pairs that
\* identify_bin_index places in a spatial bin (by dist_sqr and the squared
\* spatial edges) and whose statistic value it places in a data bin (by the
\* histogram's data bin edges): add_entry drops a value that falls in no data
\* bin.
C10_HistogramCountsPairsInBothRanges ==
  C10_Applies =>
    SumSeq(drv_accumulators.bin_counts_) =
      Cardinality({pr \in C10_Pairs :
                     /\ identify_bin_index(C10_Rslt(pr).dist_sqr, drv_edges,
                                           drv_call.nbins) < drv_call.nbins
                     /\ identify_bin_index(C10_Rslt(pr).abs_vdiff, DataBinEdges,
                                           Len(DataBinEdges) - 1)
                          < Len(DataBinEdges) - 1})

\* a histogram run counted some pairs, dropped a pair inside the spatial
\* range whose value is in no data bin, and met a pair on a spatial edge
C10_Witness ==
  /\ C10_Applies
  /\ SumSeq(drv_accumulators.bin_counts_) >= 2
  /\ Len(drv_workers) >= 2
  /\ \E pr \in C10_Pairs :
       /\ drv_edges[1] < C10_Rslt(pr).dist_sqr
       /\ C10_Rslt(pr).dist_sqr < drv_edges[drv_call.nbins + 1]
       /\ C10_Rslt(pr).abs_vdiff < DataBinEdges[1]
  /\ \E pr \in C10_Pairs : C10_Rslt(pr).dist_sqr = drv_edges[drv_call.nbins + 1]

\* the outputs of the auto calculation over points_a alone: what the serial
\* path writes when points_b is null
C11_AutoI64 ==
  LET done == process_data(drv_call.points_a, drv_call.points_a,
                           dist_sqr_bin_edges_vec(drv_call.bin_edges, drv_call.nbins),
                           drv_call.nbins,
                           build_accum_collection(drv_call.stat_list, drv_call.nbins),
                           TRUE, drv_call.pairwise_op)
  IN Coll_copy_vals(done.accumulators, "i64", CallerBuffer(drv_call, "i64"))

\* a cross calculation of a set with itself returned: points_b is the arrays
\* of points_a passed a second time, the statistic is mean, edges[0] = 0
C11_Applies ==
  /\ drv_pc = "done"
  /\ drv_returned = "true"
  /\ ~drv_ub
  /\ drv_call.stat_list.statistic = "mean"
  /\ drv_call.points_a.n_points >= 1
  /\ drv_call.points_b = drv_call.points_a
  /\ drv_call.bin_edges[1] = 0

\* C11: for a set S of N points at distinct positions and spatial edges with
\* edges[0] = 0, the cross calculation on (S, S) counts every self-pair in
\* spatial bin 0: cross.count[0] = 2*auto.count[0] + N and
\* cross.count[s] = 2*auto.count[s] for s > 0.
C11_SelfPairsInBinZero ==
  C11_Applies =>
    \A s \in 0..(drv_call.nbins - 1) :
      drv_out_i64_vals[s] =
        2 * C11_AutoI64[s] + (IF s = 0 THEN drv_call.points_a.n_points ELSE 0)

\* what the serial path computes for the call with the two sets in the
\* other order
C12_SwappedSerial(T) ==
  LET done == process_data(drv_call.points_b, drv_call.points_a,
                           dist_sqr_bin_edges_vec(drv_call.bin_edges, drv_call.nbins),
                           drv_call.nbins,
                           build_accum_collection(drv_call.stat_list, drv_call.nbins),
                           FALSE, drv_call.pairwise_op)
  IN Coll_copy_vals(done.accumulators, T, CallerBuffer(drv_call, T))

\* a correlate call over two sets (both pointers of points_b valid) ended
C12_Applies ==
  /\ drv_pc = "done"
  /\ ~C8_Rejecting
  /\ ~drv_ub
  /\ drv_call.pairwise_op = "correlate"
  /\ ~drv_call.points_b.positions.null
  /\ ~drv_call.points_b.values.null

\* the worker count is usable: nproc >= 1, or nproc = 0 with OMP_NUM_THREADS
\* unset or positive
C12_UsableWorkerCount ==
  \/ drv_call.parallel_spec.nproc >= 1
  \/ ~drv_call.OMP_NUM_THREADS.set
  \/ drv_call.OMP_NUM_THREADS.val > 0

\* C12: in a cross calculation with pairwise_op "correlate" and scalar
\* values, swapping A and B gives identical per-bin counts and histogram
\* cells and identical means, for every pair of point sets and every nproc:
\* every such call returns with the outputs of the swapped calculation.
C12_CorrelateSymmetry ==
  C12_Applies =>
    /\ drv_returned = "true"
    /\ drv_out_i64_vals = C12_SwappedSerial("i64")
    /\ drv_out_flt_vals = C12_SwappedSerial("flt")

\* the part of the symmetry that the fatal ends of C28 and C14 leave
\* standing: for non-empty point sets and a usable worker count the call
\* returns, and every call that returns has written the int64 and
\* floating-point outputs of the swapped calculation.
C12_CorrelateSymmetryOfNonEmptySets ==
  C12_Applies =>
    /\ (/\ drv_call.points_a.n_points >= 1
        /\ drv_call.points_b.n_points >= 1
        /\ C12_UsableWorkerCount) => drv_returned = "true"
    /\ drv_returned = "true" =>
         /\ drv_out_i64_vals = C12_SwappedSerial("i64")
         /\ drv_out_flt_vals = C12_SwappedSerial("flt")

\* a correlate call over two sets of two or more points each, with distinct
\* values, was run by two or more workers and counted pairs
C12_Witness ==
  /\ C12_Applies
  /\ drv_returned = "true"
  /\ Len(drv_workers) >= 2
  /\ drv_call.points_a.n_points >= 2
  /\ drv_call.points_b.n_points >= 3
  /\ drv_call.points_a.positions # drv_call.points_b.positions
  /\ \E k \in DOMAIN drv_out_i64_vals : drv_out_i64_vals[k] >= 2
  /\ drv_out_i64_vals = C12_SwappedSerial("i64")

\* ------------------------------------------------------------------------
\* Properties of the output layout
\* ------------------------------------------------------------------------
\* the buffer copy_vals<T> has written for coll_X
C13_Out(T) == IF T = "i64" THEN out_i64_vals ELSE out_flt_vals

\* the fields of a scalar collection: value j of type T of the accumulator
\* of spatial bin s is at out[s + j * n_spatial_bins]
C13_ScalarLayout ==
  \A T \in {"i64", "flt"} :
    \A s \in 0..(coll_X.n_spatial_bins_ - 1) :
      \A j \in 0..(num_type_vals_per_bin_(coll_X.kind, T) - 1) :
        C13_Out(T)[s + j * coll_X.n_spatial_bins_] =
          Accum_access(coll_X.kind, T, coll_X.accum_list_[s + 1], j)

\* the buffer type a histogram's counts are written to
C13_HistType == IF coll_X.kind.weighted THEN "flt" ELSE "i64"

\* C13: a field with e entries per spatial bin is written so that entry k of
\* spatial bin s is at out[s + k * n_spatial_bins]: for scalar collections
\* field j is at out[s + j * n_spatial_bins], and for histogram collections
\* the count of data bin k of spatial bin s is at out[s + k * n_spatial_bins].
C13_FieldLayout ==
  coll_op = "round_trip" =>
    IF IsHistogram(coll_X.kind)
    THEN \A s \in 0..(coll_X.n_spatial_bins_ - 1) :
           \A k \in 0..(coll_X.n_data_bins_ - 1) :
             C13_Out(C13_HistType)[s + k * coll_X.n_spatial_bins_] =
               coll_X.bin_counts_[k + s * coll_X.n_data_bins_ + 1]
    ELSE C13_ScalarLayout

\* C13 (amended): for scalar collections field j of spatial bin s is at
\* out[s + j * n_spatial_bins]; for histogram collections the count of data
\* bin k of spatial bin s is at out[s * n_data_bins + k] (the spatial bin is
\* the outer index, the data bin the inner one).
C13_FieldLayoutHistogramSpatialOuter ==
  coll_op = "round_trip" =>
    IF IsHistogram(coll_X.kind)
    THEN \A s \in 0..(coll_X.n_spatial_bins_ - 1) :
           \A k \in 0..(coll_X.n_data_bins_ - 1) :
             C13_Out(C13_HistType)[s * coll_X.n_data_bins_ + k] =
               coll_X.bin_counts_[k + s * coll_X.n_data_bins_ + 1]
    ELSE C13_ScalarLayout

\* a histogram of two spatial and two data bins was copied out with
\* different counts in (spatial 0, data 1) and (spatial 1, data 0)
C13_Witness ==
  /\ coll_op = "round_trip"
  /\ IsHistogram(coll_X.kind)
  /\ coll_X.n_spatial_bins_ = 2
  /\ coll_X.n_data_bins_ = 2
  /\ coll_X.bin_counts_[2] # coll_X.bin_counts_[3]
  /\ C13_Out(C13_HistType)[1] = coll_X.bin_counts_[2]

\* ------------------------------------------------------------------------
\* Properties of the worker count
\* ------------------------------------------------------------------------
\* the nominal worker count as the claim gives it
C14_Nominal ==
  IF drv_call.parallel_spec.nproc > 0 THEN drv_call.parallel_spec.nproc
  ELSE IF drv_call.OMP_NUM_THREADS.set /\ drv_call.OMP_NUM_THREADS.val > 0
       THEN drv_call.OMP_NUM_THREADS.val
       ELSE 1

\* calc_vsf_props_parallel_ has been entered
C14_Applies ==
  /\ drv_pc # "call"
  /\ ~C8_Rejecting
  /\ ~use_serial(drv_call)

\* C14: when parallel_spec.nproc == 0 the nominal worker count is the
\* environment hint if it is a positive integer and 1 when the hint is absent
\* or non-positive, and the calculation proceeds to build the partitioner
\* (get_nominal_nproc_ ends in no fatal error); when nproc > 0 the nominal
\* count is nproc.
C14_HintFallsBackToOne ==
  C14_Applies =>
    /\ get_nominal_nproc_(drv_call.parallel_spec, drv_call.OMP_NUM_THREADS) =
         [err |-> FALSE, nproc |-> C14_Nominal]
    /\ drv_returned # "fatal" => drv_factory.nproc_ = C14_Nominal

\* ------------------------------------------------------------------------
\* Properties of the task iterator
\* ------------------------------------------------------------------------
\* the tasks yielded so far that are triangles: start_B = stop_B = 0
C15_Triangles == {k \in 1..Len(tasks) : tasks[k].start_B = 0 /\ tasks[k].stop_B = 0}

\* C15: for an auto strategy with S >= 1 segments n_partitions() is
\* S*(S+1)/2; a TaskIt over [0, n_partitions()) yields exactly that many
\* tasks, S of them triangles (start_B = stop_B = 0) and S*(S-1)/2
\* rectangles; the 2D index used for each task satisfies 0 <= i <= j < S.
C15_TriangleCount ==
  partition_strat_.kind = "auto" =>
    LET S == partition_strat_.num_segments
    IN /\ n_partitions(partition_strat_) = (S * (S + 1)) \div 2
       /\ index_stop_1D_ = (S * (S + 1)) \div 2
       /\ Len(tasks) = next_index_1D_
       /\ Len(tasks) <= (S * (S + 1)) \div 2
       /\ \A k \in 1..Len(tasks) : ~tasks[k].err
       /\ has_next => /\ 0 <= next_index_2D_[1]
                      /\ next_index_2D_[1] <= next_index_2D_[2]
                      /\ next_index_2D_[2] < S
       /\ ~has_next => /\ Len(tasks) = (S * (S + 1)) \div 2
                       /\ Cardinality(C15_Triangles) = S
                       /\ Len(tasks) - Cardinality(C15_Triangles) = (S * (S - 1)) \div 2

\* a TaskIt over a strategy of three or more segments has yielded all its
\* tasks, triangles and rectangles among them
C15_Witness ==
  /\ partition_strat_.kind = "auto"
  /\ partition_strat_.num_segments >= 3
  /\ ~has_next
  /\ Cardinality(C15_Triangles) = partition_strat_.num_segments
  /\ Len(tasks) > Cardinality(C15_Triangles)

\* ------------------------------------------------------------------------
\* Properties of the auto calculation with statistic mean
\* ------------------------------------------------------------------------
\* the unordered pairs whose squared distance identify_bin_index assigns to
\* spatial bin s
C16_PairsOfBin(s) ==
  {pr \in C10_Pairs :
     identify_bin_index(C10_Rslt(pr).dist_sqr,
                        dist_sqr_bin_edges_vec(drv_call.bin_edges, drv_call.nbins),
                        drv_call.nbins) = s}

\* the sum of the pair statistic over a set of pairs
RECURSIVE C16_Sum(_)
C16_Sum(prs) ==
  IF prs = {} THEN 0
  ELSE LET pr == CHOOSE q \in prs : TRUE
       IN C10_Rslt(pr).abs_vdiff + C16_Sum(prs \ {pr})

\* an auto calculation (points_b null) with statistic mean returned
C16_Applies ==
  /\ drv_pc = "done"
  /\ drv_returned = "true"
  /\ ~drv_ub
  /\ is_duplicated_points(drv_call)
  /\ drv_call.stat_list.statistic = "mean"

\* C16: after an auto calculation with statistic mean, count[s] is the
\* number of unordered pairs {a < b} whose squared distance is assigned to
\* spatial bin s and mean[s] is the average of the pair statistic over those
\* pairs; pairs assigned to no bin add nothing, and no entry is added at a
\* spatial bin index >= nbins (the collection keeps nbins accumulators and
\* the outputs nbins counts and means).  The two-point case gives
\* mean[0] = 5, count[0] = 1; the three collinear points give mean[0] = 1,
\* count[0] = 1, mean[1] = 3.5, count[1] = 2.
C16_CountsAndMeansOfBinnedPairs ==
  C16_Applies =>
    /\ Len(drv_accumulators.accum_list_) = drv_call.nbins
    /\ DOMAIN drv_out_i64_vals = 0..(drv_call.nbins - 1)
    /\ DOMAIN drv_out_flt_vals = 0..(drv_call.nbins - 1)
    /\ \A s \in 0..(drv_call.nbins - 1) :
         /\ drv_out_i64_vals[s] = Cardinality(C16_PairsOfBin(s))
         /\ drv_out_flt_vals[s] =
              IF C16_PairsOfBin(s) = {} THEN RZero
              ELSE RDiv(RInt(C16_Sum(C16_PairsOfBin(s))),
                        RInt(Cardinality(C16_PairsOfBin(s))))
    /\ drv_call \in {TwoPointCall(nproc) : nproc \in {1, 2}} =>
         drv_out_i64_vals = (0 :> 1) /\ drv_out_flt_vals = (0 :> RInt(5))
    /\ drv_call \in {CollinearCall(nproc) : nproc \in {1, 2}} =>
         /\ drv_out_i64_vals = (0 :> 1) @@ (1 :> 2)
         /\ drv_out_flt_vals = (0 :> RInt(1)) @@ (1 :> <<7, 2>>)

\* an auto calculation over five points returned with pairs in both bins
\* and some pair in no bin
C16_Witness ==
  /\ C16_Applies
  /\ drv_call.points_a.n_points = 5
  /\ \A s \in 0..(drv_call.nbins - 1) : drv_out_i64_vals[s] >= 2
  /\ \E pr \in C10_Pairs :
       identify_bin_index(C10_Rslt(pr).dist_sqr, drv_edges, drv_call.nbins)
         = drv_call.nbins
  /\ drv_out_flt_vals[0] # drv_out_flt_vals[1]

\* ------------------------------------------------------------------------
\* Properties of the streaming moments
\* ------------------------------------------------------------------------
\* the sum of the values of a sequence
RECURSIVE C17_Sum(_)
C17_Sum(vals) == IF vals = <<>> THEN 0 ELSE Head(vals) + C17_Sum(Tail(vals))

\* the sum of (v - mean)^p over the values of a sequence
RECURSIVE C17_SumPow(_, _, _)
C17_SumPow(vals, mean, p) ==
  IF vals = <<>> THEN RZero
  ELSE LET d == RSub(RInt(Head(vals)), mean)
       IN RAdd(IF p = 2 THEN RMul(d, d) ELSE RMul(RMul(d, d), d),
               C17_SumPow(Tail(vals), mean, p))

\* C17: after add_entry(v_1) ... add_entry(v_n) on a fresh unweighted
\* CentralMomentAccum (of order 3, and of the lower orders for the moments
\* they keep), count = n, mean = (sum v_i)/n, M2 = sum (v_i - mean)^2 and
\* M3 = sum (v_i - mean)^3 in exact arithmetic, so that M2/(count - 1) is the
\* unbiased sample variance for n >= 2.
C17_StreamingMomentsMatchDefinitions ==
  Len(entries) >= 1 =>
    LET n == Len(entries)
        mean == RDiv(RInt(C17_Sum(entries)), RInt(n))
    IN /\ whole.count = n
       /\ whole.moment_accums[1] = mean
       /\ acc_kind.Order >= 2 =>
            /\ whole.moment_accums[2] = C17_SumPow(entries, mean, 2)
            /\ n >= 2 =>
                 RDiv(whole.moment_accums[2], RInt(whole.count - 1)) =
                   RDiv(C17_SumPow(entries, mean, 2), RInt(n - 1))
       /\ acc_kind.Order >= 3 =>
            whole.moment_accums[3] = C17_SumPow(entries, mean, 3)

\* an accumulator of order 3 has taken four or more values, not all equal,
\* and holds a third moment that is not zero
C17_Witness ==
  /\ acc_kind.Order = 3
  /\ Len(entries) >= 4
  /\ whole.count = Len(entries)
  /\ whole.moment_accums[3] # RZero
  /\ whole.moment_accums[2] # RZero

\* the weighted accumulator w holds what the unweighted u holds: weight_sum
\* equal to the count, and the same mean and M2
C18_Same(u, w) ==
  /\ w.count = RInt(u.count)
  /\ \A i \in 1..Len(w.moment_accums) : w.moment_accums[i] = u.moment_accums[i]

\* C18: for orders 1 and 2 and any sequence of values and merges, a weighted
\* central-moment accumulator fed (v, 1) holds weight_sum equal to the
\* unweighted count and, in exact arithmetic, the same mean and M2 as the
\* unweighted accumulator fed v through the same sequence of add_entry and
\* consolidate_with_other calls.
C18_UnitWeightsReproduceUnweighted ==
  acc_kind.Order <= 2 =>
    /\ C18_Same(whole, whole_w)
    /\ C18_Same(cur, cur_w)
    /\ C18_Same(merged, merged_w)

\* accumulators of order 2 have merged two or more chunks, one of them of
\* two or more values, into a second moment that is not zero
C18_Witness ==
  /\ acc_kind.Order = 2
  /\ Len(chunk_sizes) >= 2
  /\ \E k \in 1..Len(chunk_sizes) : chunk_sizes[k] >= 2
  /\ merged.moment_accums[2] # RZero
  /\ C18_Same(merged, merged_w)
  /\ merged_w.count = RInt(Len(entries))

\* ------------------------------------------------------------------------
\* Properties of the compound collection
\* ------------------------------------------------------------------------
\* the members' props of type T, in declared order
RECURSIVE C19_MemberProps(_, _, _)
C19_MemberProps(tuple, m, T) ==
  IF m > Len(tuple) THEN <<>>
  ELSE val_props(tuple[m], T) \o C19_MemberProps(tuple, m + 1, T)

\* C19: calling flt_val_props(), i64_val_props() or import_vals() on a
\* CompoundAccumCollection completes without a fatal error; the props list
\* the members' fields in declared order, and import_vals leaves the
\* collection in the state its copy_vals wrote out.
C19_CompoundInterface ==
  /\ cmp_op = "flt_val_props" =>
       ~cmp_fatal /\ cmp_props = C19_MemberProps(accum_collec_tuple_, 1, "flt")
  /\ cmp_op = "i64_val_props" =>
       ~cmp_fatal /\ cmp_props = C19_MemberProps(accum_collec_tuple_, 1, "i64")
  /\ cmp_op = "import_vals" =>
       /\ ~cmp_fatal
       /\ cmp_out_i64_vals = Compound_copy_vals(accum_collec_tuple_, "i64", cmp_out_i64_vals)
       /\ cmp_out_flt_vals = Compound_copy_vals(accum_collec_tuple_, "flt", cmp_out_flt_vals)

\* ------------------------------------------------------------------------
\* Properties of the create functions
\* ------------------------------------------------------------------------
C20_Applies ==
  /\ mk_args # <<>>
  /\ mk_args.fn = "auto"
  /\ 1 <= mk_args.nproc
  /\ mk_args.nproc <= 60
  /\ mk_args.n_points >= 2

C20_Small == (~mk_args.skip_small_prob_check) /\ (mk_args.n_points <= 1000)

C20_MaxSegments ==
  IF mk_args.n_points <= 4 THEN 1 ELSE (mk_args.n_points - 1) \div 2

\* the smallest S in [2, max_segments] with S*(S+1)/2 >= 3*nproc, or
\* max_segments when there is none
C20_Choice ==
  LET fit == {S \in 2..C20_MaxSegments : (S * (S + 1)) \div 2 >= 3 * mk_args.nproc}
  IN IF fit = {} THEN C20_MaxSegments
     ELSE CHOOSE S \in fit : \A R \in fit : S <= R

\* C20: for 1 <= nproc <= 60 and N >= 2, when the problem is not small
\* (skip_small_check, or N > 1000) AutoSFPartitionStrat::create returns
\* num_segments equal to the smallest S in [2, max_segments] with
\* S*(S+1)/2 >= 3*nproc, or max_segments when no such S exists, where
\* max_segments = 1 if N <= 4 else (N-1)/2; when the problem is small it
\* returns S = 1.
C20_AutoSegmentChoice ==
  C20_Applies =>
    /\ ~mk_rslt.err
    /\ mk_rslt.strat.n_points = mk_args.n_points
    /\ mk_rslt.strat.num_segments = IF C20_Small THEN 1 ELSE C20_Choice

\* C20 (amended): when the problem is small or nproc = 1, create returns
\* S = 1; otherwise (2 <= nproc <= 60, problem not small) it returns the
\* smallest S in [2, max_segments] with S*(S+1)/2 >= 3*nproc, or
\* max_segments when no such S exists.
C20_AutoSegmentChoiceOneWorker ==
  C20_Applies =>
    /\ ~mk_rslt.err
    /\ mk_rslt.strat.n_points = mk_args.n_points
    /\ mk_rslt.strat.num_segments =
         IF C20_Small \/ mk_args.nproc = 1 THEN 1 ELSE C20_Choice

\* create chose a number of segments above 2 and below max_segments
C20_Witness ==
  /\ C20_Applies
  /\ ~C20_Small
  /\ mk_args.nproc >= 2
  /\ mk_rslt.strat.num_segments > 2
  /\ mk_rslt.strat.num_segments < C20_MaxSegments
  /\ mk_rslt.strat.num_segments = C20_Choice

\* C21: every strategy AutoSFPartitionStrat::create returns for accepted
\* arguments (1 <= nproc <= 60, N >= 2, either skip_small_check) satisfies
\* 2*num_segments + 1 <= n_points.
C21_AutoPostCondition ==
  C20_Applies =>
    /\ ~mk_rslt.err
    /\ 2 * mk_rslt.strat.num_segments + 1 <= mk_rslt.strat.n_points

\* C21 (amended): create returns a strategy for all accepted arguments; it
\* satisfies 2*num_segments + 1 <= n_points when N >= 3, and for N = 2 it
\* has num_segments = 1.
C21_AutoPostConditionFromThreePoints ==
  C20_Applies =>
    /\ ~mk_rslt.err
    /\ mk_rslt.strat.n_points = mk_args.n_points
    /\ mk_args.n_points >= 3 =>
         2 * mk_rslt.strat.num_segments + 1 <= mk_rslt.strat.n_points
    /\ mk_args.n_points = 2 => mk_rslt.strat.num_segments = 1

\* create returned as many segments as the post-condition allows, with
\* more than one worker
C21_Witness ==
  /\ C20_Applies
  /\ mk_args.nproc >= 2
  /\ mk_rslt.strat.num_segments >= 2
  /\ 2 * mk_rslt.strat.num_segments + 1 = mk_rslt.strat.n_points

C22_Applies ==
  /\ mk_args # <<>>
  /\ mk_args.fn = "cross"
  /\ mk_args.nproc >= 1

C22_Small ==
  /\ ~mk_args.skip_small_problem_check
  /\ mk_args.n_points_A * mk_args.n_points_B <= 1000
  /\ ~(mk_args.n_points_A >= 1000 /\ mk_args.n_points_B > 0)
  /\ ~(mk_args.n_points_B >= 1000 /\ mk_args.n_points_A > 0)

C22_Unpartitioned ==
  \/ C22_Small
  \/ mk_args.nproc > Max(mk_args.n_points_A, mk_args.n_points_B)

\* the axis the claim names: A when N_A >= nproc is a multiple of nproc,
\* else B when N_B >= nproc is a multiple of nproc, else the larger axis
C22_Axis ==
  IF mk_args.n_points_A >= mk_args.nproc /\ mk_args.n_points_A % mk_args.nproc = 0
  THEN "A"
  ELSE IF mk_args.n_points_B >= mk_args.nproc /\ mk_args.n_points_B % mk_args.nproc = 0
  THEN "B"
  ELSE IF mk_args.n_points_A >= mk_args.n_points_B THEN "A" ELSE "B"

\* C22: CrossSFPartitionStrat::create(nproc >= 1, N_A, N_B, skip) returns
\* (S_A, S_B) = (1, 1) when the problem is small or nproc > max(N_A, N_B);
\* otherwise it partitions exactly one axis into nproc segments and leaves
\* the other at 1: A if N_A >= nproc is a multiple of nproc, else B if
\* N_B >= nproc is a multiple of nproc, else the larger axis (A on a tie);
\* the partitioned axis always has at least nproc points.
C22_CrossSegmentChoice ==
  C22_Applies =>
    /\ ~mk_rslt.err
    /\ mk_rslt.strat.n_points = mk_args.n_points_A
    /\ mk_rslt.strat.n_points_B = mk_args.n_points_B
    /\ C22_Unpartitioned =>
         /\ mk_rslt.strat.num_segments = 1
         /\ mk_rslt.strat.num_segments_B = 1
    /\ (~C22_Unpartitioned /\ C22_Axis = "A") =>
         /\ mk_rslt.strat.num_segments = mk_args.nproc
         /\ mk_rslt.strat.num_segments_B = 1
         /\ mk_args.n_points_A >= mk_args.nproc
    /\ (~C22_Unpartitioned /\ C22_Axis = "B") =>
         /\ mk_rslt.strat.num_segments = 1
         /\ mk_rslt.strat.num_segments_B = mk_args.nproc
         /\ mk_args.n_points_B >= mk_args.nproc

\* create partitioned A on a tie of two axes, neither a multiple of nproc
C22_Witness ==
  /\ C22_Applies
  /\ ~C22_Unpartitioned
  /\ mk_args.nproc >= 2
  /\ mk_args.n_points_A = mk_args.n_points_B
  /\ mk_args.n_points_A % mk_args.nproc # 0
  /\ mk_rslt.strat.num_segments = mk_args.nproc
  /\ mk_rslt.strat.num_segments_B = 1

\* ------------------------------------------------------------------------
\* Properties of TaskItFactory
\* ------------------------------------------------------------------------
\* the k-th 2D index (k from 0) of the canonical enumeration: auto is
\* row-major over (i, j) with j >= i, cross is row-major over (i, j)
C23_Index2D(strat, k) ==
  IF strat.kind = "cross"
  THEN <<k \div strat.num_segments_B, k % strat.num_segments_B>>
  ELSE LET S == strat.num_segments
       IN CHOOSE ij \in (0..(S - 1)) \X (0..(S - 1)) :
            /\ ij[1] <= ij[2]
            /\ k = Cardinality({pq \in (0..(S - 1)) \X (0..(S - 1)) :
                     /\ pq[1] <= pq[2]
                     /\ (pq[1] < ij[1] \/ (pq[1] = ij[1] /\ pq[2] < ij[2]))})

\* the 1D range of worker proc_id: [0, n) cut into E contiguous ranges
\* whose sizes differ by at most one, the larger ones first
C23_Start(proc_id) ==
  LET n == n_partitions(fac_factory.partition_strat_)
      E == Len(fac_its)
  IN proc_id * (n \div E) + Min(proc_id, n % E)

C23_Stop(proc_id) == C23_Start(proc_id + 1)

C23_Assignment ==
  fac_factory # <<>> =>
    /\ Len(fac_its) = Min(fac_args.nproc, n_partitions(fac_factory.partition_strat_))
    /\ \A proc_id \in 0..(Len(fac_its) - 1) :
         LET it == fac_its[proc_id + 1]
         IN it.built =>
              /\ it.index_start_1D = C23_Start(proc_id)
              /\ it.task_iter.index_stop_1D_ = C23_Stop(proc_id)
              /\ C23_Stop(proc_id) - C23_Start(proc_id) >= 1
              /\ \A q \in 0..(Len(fac_its) - 1) :
                   (C23_Stop(proc_id) - C23_Start(proc_id))
                     - (C23_Stop(q) - C23_Start(q)) \in {-1, 0, 1}
              /\ \A k \in 1..Len(it.yielded) :
                   /\ it.yielded[k].index_1D = C23_Start(proc_id) + k - 1
                   /\ it.yielded[k].index_2D =
                        C23_Index2D(fac_factory.partition_strat_,
                                    it.yielded[k].index_1D)
                   /\ it.yielded[k].task =
                        build_StatTask(fac_factory.partition_strat_,
                                       it.yielded[k].index_2D)
              /\ Len(it.yielded) <= C23_Stop(proc_id) - C23_Start(proc_id)
              /\ TaskIt_has_next(it.task_iter) <=>
                   Len(it.yielded) < C23_Stop(proc_id) - C23_Start(proc_id)
    /\ C23_Start(0) = 0
    /\ C23_Stop(Len(fac_its) - 1) = n_partitions(fac_factory.partition_strat_)

\* C23: with effective_nproc = min(nproc, n_partitions), the TaskIts that
\* build_TaskIt returns for proc_id = 0 .. effective_nproc-1 are each built
\* without a fatal error, each yield at least one task, together yield every
\* 1D index of [0, n_partitions) exactly once in canonical row-major order
\* (the task at 1D index k is the task of the k-th 2D index), and their
\* task counts differ by at most one; has_next() is false after exactly
\* stop - start calls of next().
C23_WorkAssignment ==
  /\ C23_Assignment
  /\ fac_factory # <<>> => ~fac_fatal

\* three TaskIts of an auto strategy of four segments have yielded all ten
\* tasks
C23_AllYielded ==
  /\ fac_factory # <<>>
  /\ fac_factory.partition_strat_.kind = "auto"
  /\ fac_factory.partition_strat_.num_segments = 4
  /\ Len(fac_its) = 3
  /\ \A p \in 1..3 : fac_its[p].built /\ ~TaskIt_has_next(fac_its[p].task_iter)
  /\ Len(fac_its[1].yielded) = 4
  /\ Len(fac_its[3].yielded) = 3

\* ------------------------------------------------------------------------
\* Properties of the parallel driver's workers
\* ------------------------------------------------------------------------
\* the clone every worker starts from
C24_InitialClone == build_accum_collection(drv_call.stat_list, drv_call.nbins)

\* what one thread alone makes of accums with the next n tasks of task_iter
RECURSIVE C24_RunTasks(_, _, _)
C24_RunTasks(task_iter, accums, n) ==
  IF n = 0 THEN accums
  ELSE C24_RunTasks(TaskIt_after_next(task_iter),
                    process_StatTask(drv_call.points_a, my_points_b(drv_call),
                                     drv_edges, drv_call.nbins, accums,
                                     is_duplicated_points(drv_call),
                                     TaskIt_next_task(task_iter),
                                     drv_call.pairwise_op).accumulators,
                    n - 1)

\* the clone of worker proc_id after n of its tasks
C24_Clone(proc_id, n) ==
  C24_RunTasks(build_TaskIt(drv_factory, proc_id), C24_InitialClone, n)

C24_NumTasks(proc_id) ==
  LET task_iter == build_TaskIt(drv_factory, proc_id)
  IN task_iter.index_stop_1D_ - task_iter.next_index_1D_

\* clone[0] merged with clone[1], ..., clone[i] in worker-id order
RECURSIVE C24_LeftFold(_)
C24_LeftFold(i) ==
  IF i = 0 THEN C24_Clone(0, C24_NumTasks(0))
  ELSE Coll_consolidate_with_other(C24_LeftFold(i - 1),
                                   C24_Clone(i, C24_NumTasks(i)))

\* C24: under every interleaving of the worker threads, worker p reads and
\* writes only its own clone partition_dest[p] (so its clone and its local
\* copy depend on its own progress alone), the merge starts only after every
\* worker has stored its result, and the caller's accumulator ends equal to
\* the left fold clone[0] merged with clone[1], ..., clone[effective_nproc-1]
\* in worker-id order, each clone merged exactly once; so the result is the
\* same for every interleaving and for force_sequential = true.
C24_InterleavingIndependence ==
  (Len(drv_workers) >= 1 /\ ~drv_ub) =>
    /\ Len(drv_partition_dest) = Len(drv_workers)
    /\ \A proc_id \in 0..(Len(drv_workers) - 1) :
         LET w == drv_workers[proc_id + 1]
         IN /\ w.phase = "idle" =>
                 drv_partition_dest[proc_id + 1] = C24_InitialClone
            /\ w.phase = "run" =>
                 /\ drv_partition_dest[proc_id + 1] = C24_InitialClone
                 /\ w.local_accums =
                      C24_Clone(proc_id,
                                w.task_iter.next_index_1D_
                                  - build_TaskIt(drv_factory, proc_id).next_index_1D_)
            /\ w.phase = "stored" =>
                 drv_partition_dest[proc_id + 1] =
                   C24_Clone(proc_id, C24_NumTasks(proc_id))
    /\ drv_accumulators # C24_InitialClone =>
         \A q \in 1..Len(drv_workers) : drv_workers[q].phase = "stored"
    /\ drv_returned = "true" =>
         /\ \A q \in 1..Len(drv_workers) : drv_workers[q].phase = "stored"
         /\ drv_accumulators = C24_LeftFold(Len(drv_workers) - 1)
         /\ drv_out_i64_vals =
              Coll_copy_vals(C24_LeftFold(Len(drv_workers) - 1), "i64",
                             CallerBuffer(drv_call, "i64"))
         /\ drv_out_flt_vals =
              Coll_copy_vals(C24_LeftFold(Len(drv_workers) - 1), "flt",
                             CallerBuffer(drv_call, "flt"))

\* three or more threads ran at once, every clone took entries, and the
\* clones were merged
C24_Witness ==
  /\ Len(drv_workers) >= 3
  /\ ~drv_call.parallel_spec.force_sequential
  /\ ~drv_ub
  /\ drv_returned = "true"
  /\ \A q \in 1..Len(drv_partition_dest) :
       drv_partition_dest[q] # C24_InitialClone
  /\ drv_accumulators = C24_LeftFold(Len(drv_workers) - 1)
  /\ drv_accumulators # drv_partition_dest[1]

\* ------------------------------------------------------------------------
\* Properties of the weighted accumulators
\* ------------------------------------------------------------------------
\* coll_Y holds weighted CentralMomentAccums or OriginMomentAccums; each was
\* constructed or purged and has since taken add_entry(val, weight) calls only
C25_Applies ==
  /\ coll_Y.kind.weighted
  /\ coll_Y.kind.family \in {"central", "origin"}

C25_ZeroWeightSumMeansZeroMoments ==
  \A s \in DOMAIN coll_Y.accum_list_ :
    LET acc == coll_Y.accum_list_[s]
    IN acc.count = RZero =>
         \A i \in DOMAIN acc.moment_accums : acc.moment_accums[i] = RZero

C25_ZeroWeightEntryKeepsMean ==
  \A s \in DOMAIN coll_Y.accum_list_ : \A val \in CollValues :
    LET acc == coll_Y.accum_list_[s]
        after == Accum_add_entry_w(coll_Y.kind, acc, RInt(val), RZero)
    IN /\ after.count = acc.count
       /\ after.moment_accums[1] = acc.moment_accums[1]

\* C25: after every sequence of weighted add_entry(v, w) calls on a fresh
\* weighted CentralMomentAccum (and on a weighted OriginMomentAccum),
\* weight_sum == 0 implies mean == 0 (and every stored moment == 0); an
\* entry with w = 0 leaves mean unchanged.
C25_ZeroWeightInvariant ==
  C25_Applies =>
    /\ C25_ZeroWeightSumMeansZeroMoments
    /\ C25_ZeroWeightEntryKeepsMean

\* C25 (amended): the same after every sequence of add_entry(v, w) calls
\* whose weights are all >= 0; an entry with w = 0 leaves mean unchanged
\* after any sequence.
C25_ZeroWeightInvariantNonNegativeWeights ==
  C25_Applies =>
    /\ (\A w \in coll_weights : w >= 0) => C25_ZeroWeightSumMeansZeroMoments
    /\ C25_ZeroWeightEntryKeepsMean

\* one accumulator took only entries of weight 0, the other took an entry of
\* positive weight and holds a mean
C25_Witness ==
  /\ C25_Applies
  /\ coll_X = Coll_purge(coll_X)
  /\ coll_weights = {0, 1}
  /\ coll_n_entries = MaxCollEntries
  /\ coll_Y.n_spatial_bins_ = 2
  /\ coll_Y.accum_list_[1].count = RZero
  /\ coll_Y.accum_list_[2].count = RInt(1)
  /\ coll_Y.accum_list_[2].moment_accums[1] # RZero

\* ------------------------------------------------------------------------
\* Properties of consolidate_with_other on collections of any shape
\* ------------------------------------------------------------------------
\* the shapes of the receiving collection (before the call) and of the other
\* differ, as the claim words it
C26_ShapesDiffer ==
  IF IsHistogram(coll_snap.kind)
  THEN \/ coll_snap.n_spatial_bins_ # coll_P.n_spatial_bins_
       \/ coll_snap.n_data_bins_ # coll_P.n_data_bins_
  ELSE coll_snap.n_spatial_bins_ # coll_P.n_spatial_bins_

\* C26: consolidate_with_other on two scalar collections with different
\* n_spatial_bins, or on two histogram collections whose n_spatial_bins or
\* n_data_bins differ, ends in the fatal error before any element of the
\* receiving collection is modified; with matching shapes a histogram merge
\* sets every cell to the sum of the two corresponding cells and leaves the
\* other collection unchanged.
C26_ShapeMismatchIsFatalAndAtomic ==
  coll_op \in {"fatal", "X_with_other"} =>
    /\ C26_ShapesDiffer => (coll_op = "fatal" /\ coll_X = coll_snap)
    /\ ~C26_ShapesDiffer => coll_op = "X_with_other"
    /\ (~C26_ShapesDiffer /\ IsHistogram(coll_snap.kind)) =>
         /\ Len(coll_X.bin_counts_) = coll_X.n_spatial_bins_ * coll_X.n_data_bins_
         /\ \A i \in DOMAIN coll_X.bin_counts_ :
              coll_X.bin_counts_[i] =
                IF coll_X.kind.weighted
                THEN RAdd(coll_snap.bin_counts_[i], coll_P.bin_counts_[i])
                ELSE coll_snap.bin_counts_[i] + coll_P.bin_counts_[i]
         /\ coll_P \in
              {NewCollectionOfShape(coll_snap.kind, coll_snap.n_spatial_bins_,
                                    coll_P.data_bin_edges_),
               Coll_add_entry_w(
                 NewCollectionOfShape(coll_snap.kind, coll_snap.n_spatial_bins_,
                                      coll_P.data_bin_edges_), 0, 1, 1)}

\* a histogram collection that holds counts met one with another number of
\* data bins that holds a count
C26_Witness ==
  /\ coll_op = "fatal"
  /\ IsHistogram(coll_snap.kind)
  /\ coll_snap.n_spatial_bins_ = coll_P.n_spatial_bins_
  /\ coll_snap.n_data_bins_ # coll_P.n_data_bins_
  /\ coll_snap # Coll_purge(coll_snap)
  /\ coll_P # Coll_purge(coll_P)
  /\ coll_X = coll_snap

\* ------------------------------------------------------------------------
\* C27 (compound output layout)
\* ------------------------------------------------------------------------
\* the number of values of type T member m owns
C27_Size(m, T) ==
  accum_collec_tuple_[m].n_spatial_bins_ * SumSeq(val_props(accum_collec_tuple_[m], T))

\* the sum of the sizes of the members declared before member m
C27_Offset(m, T) == SumSeq([j \in 1..(m - 1) |-> C27_Size(j, T)])

\* member m's own layout: what its copy_vals<T> writes to a buffer of its own
C27_OwnLayout(m, T) ==
  Coll_copy_vals(accum_collec_tuple_[m], T, NewBuffer(T, C27_Size(m, T)))

C27_Out(T) == IF T = "i64" THEN cmp_out_i64_vals ELSE cmp_out_flt_vals

\* C27: after copy_vals<T> the buffer is the concatenation, in declared
\* order, of the members' own layouts: member m's values are at the offset
\* that is the sum of the earlier members' sizes, the regions cover the
\* buffer without overlap, and a member with no field of type T has an
\* empty region
C27_CompoundOutputLayout ==
  (cmp_op = "copy_vals") =>
    \A T \in {"i64", "flt"} :
      /\ DOMAIN C27_Out(T) = 0..(C27_Offset(Len(accum_collec_tuple_) + 1, T) - 1)
      /\ \A m \in DOMAIN accum_collec_tuple_ :
           /\ \A k \in 0..(C27_Size(m, T) - 1) :
                C27_Out(T)[C27_Offset(m, T) + k] = C27_OwnLayout(m, T)[k]
           /\ (val_props(accum_collec_tuple_[m], T) = <<>>) =>
                /\ C27_Size(m, T) = 0
                /\ C27_Offset(m + 1, T) = C27_Offset(m, T)
           /\ \A j \in DOMAIN accum_collec_tuple_ :
                (j < m) => (C27_Offset(j, T) + C27_Size(j, T) <= C27_Offset(m, T))

\* three members with entries, the first (a histogram) with no floating
\* point field, and a later member whose values differ from what the first
\* member wrote at offset 0
C27_Witness ==
  /\ cmp_op = "copy_vals"
  /\ Len(accum_collec_tuple_) = 3
  /\ cmp_n_entries = MaxCollEntries
  /\ val_props(accum_collec_tuple_[1], "flt") = <<>>
  /\ C27_Size(2, "flt") > 0
  /\ C27_Offset(3, "i64") > C27_Offset(2, "i64")
  /\ C27_Offset(2, "i64") > 0
  /\ \E k \in 0..(C27_Size(3, "i64") - 1) :
       cmp_out_i64_vals[C27_Offset(3, "i64") + k] # cmp_out_i64_vals[k]

\* ------------------------------------------------------------------------
\* C28 (in-bounds tasks in the parallel driver)
\* ------------------------------------------------------------------------
\* a calculation over two sets, both pointers of points_b supplied, that has
\* entered calc_vsf_props_parallel_
C28_CrossParallel ==
  /\ ~drv_call.points_b.positions.null
  /\ ~drv_call.points_b.values.null
  /\ ~calc_vsf_props_rejects(drv_call)
  /\ ~use_serial(drv_call)

\* the task's ranges lie within the sets they index
C28_InBounds(stat_task) ==
  /\ stat_task.start_A <= stat_task.stop_A
  /\ stat_task.stop_A <= drv_call.points_a.n_points
  /\ stat_task.start_B <= stat_task.stop_B
  /\ stat_task.stop_B <= drv_call.points_b.n_points

\* the partitioning was built: the call did not end in error() except on an
\* invalid worker-count hint
C28_PartitioningBuilt ==
  (drv_returned = "fatal") =>
    get_nominal_nproc_(drv_call.parallel_spec, drv_call.OMP_NUM_THREADS).err

\* C28: in a calculation over two sets (points_b supplied), for every N_A,
\* N_B >= 0 and every nominal nproc, every task a worker is about to process
\* has start_A <= stop_A <= N_A and start_B <= stop_B <= N_B, the kernel reads
\* only existing points, and no fatal error is raised while the partitioning
\* is built or a worker takes its next task
C28_InBoundsTasks ==
  C28_CrossParallel =>
    /\ C28_PartitioningBuilt
    /\ ~drv_ub
    /\ (drv_pc = "parallel") =>
         \A p \in DOMAIN drv_workers :
           (drv_workers[p].phase = "run" /\ TaskIt_has_next(drv_workers[p].task_iter)) =>
             LET stat_task == TaskIt_next_task(drv_workers[p].task_iter)
             IN IF stat_task.err THEN FALSE ELSE C28_InBounds(stat_task)

\* the two ways C28 fails at these sizes, each for an empty set
C28_FatalWhileBuilding ==
  /\ C28_CrossParallel
  /\ drv_returned = "fatal"
  /\ drv_call.points_b.n_points = 0
  /\ drv_call.points_a.n_points = 1
  /\ drv_call.parallel_spec.nproc = 2

C28_FatalInNext ==
  /\ C28_CrossParallel
  /\ drv_returned = "fatal"
  /\ drv_call.points_a.n_points = 0
  /\ drv_call.points_b.n_points = 1
  /\ drv_call.parallel_spec.nproc = 2

\* ------------------------------------------------------------------------
\* C29 (squared-edge binning)
\* ------------------------------------------------------------------------
C29_StrictlyIncreasing(edges) ==
  \A i \in 1..(Len(edges) - 1) : edges[i] < edges[i + 1]

C29_Equivalent ==
  /\ (sqr_dist_sqr_bin_edges_vec # <<>>) =>
       C29_StrictlyIncreasing(sqr_dist_sqr_bin_edges_vec)
  /\ (sqr_bins # <<>>) => (sqr_bins.d = sqr_bins.d_sqr)

\* C29: for every strictly increasing edge sequence (negative edges
\* allowed) the sequence built by calc_vsf_props (e*e for e >= 0, e for
\* e < 0) is strictly increasing, and for every distance d >= 0
\* identify_bin_index assigns to d*d on the transformed edges the bin it
\* assigns to d on the original edges
C29_SquaredEdgeBinning == C29_Equivalent

\* the double c * c is the exact product: it neither overflowed nor
\* underflowed
C29_ExactSquare(c) ==
  IF c = 0 THEN TRUE ELSE Dbl_mul_self(c) \notin {0, DblInf}

C29_ExactSquares ==
  /\ \A i \in DOMAIN sqr_bin_edges :
       (sqr_bin_edges[i] >= 0) => C29_ExactSquare(sqr_bin_edges[i])
  /\ C29_ExactSquare(sqr_d)

\* C29 (amended): the same, for edge sequences and distances whose squares
\* are computed exactly, that is for which no e*e of a non-negative edge and
\* not d*d overflows, underflows or is rounded
C29_SquaredEdgeBinningExactSquares == C29_ExactSquares => C29_Equivalent

\* a first edge that is negative and kept, a last edge that was squared to
\* another value, and a distance equal to an edge that lies in a bin
C29_Witness ==
  /\ sqr_bins # <<>>
  /\ C29_ExactSquares
  /\ sqr_bin_edges[1] < 0
  /\ sqr_dist_sqr_bin_edges_vec[1] = sqr_bin_edges[1]
  /\ sqr_dist_sqr_bin_edges_vec[Len(sqr_bin_edges)] # sqr_bin_edges[Len(sqr_bin_edges)]
  /\ sqr_d > 0
  /\ \E i \in DOMAIN sqr_bin_edges : sqr_bin_edges[i] = sqr_d
  /\ sqr_bins.d < Len(sqr_bin_edges) - 1
  /\ sqr_bins.d = sqr_bins.d_sqr

\* a tiny positive distance whose square is zero, binned differently on
\* edges whose squares are exact
C29_UnderflowingDistance ==
  /\ sqr_bins # <<>>
  /\ \A i \in DOMAIN sqr_bin_edges :
       (sqr_bin_edges[i] >= 0) => C29_ExactSquare(sqr_bin_edges[i])
  /\ sqr_d = Dbl(1, -TinyExp)
  /\ sqr_bins.d # sqr_bins.d_sqr

\* ------------------------------------------------------------------------
\* C30 (initial content is replicated per worker)
\* ------------------------------------------------------------------------
\* the run of calc_vsf_props_parallel_ on a prefilled accumulator has ended
C30_Applies ==
  /\ par_initial # <<>>
  /\ drv_pc = "done"
  /\ drv_returned = "true"
  /\ ~drv_ub

\* the integer values (counts) the accumulators held at the start
C30_InitialI64 == Coll_copy_vals(par_initial, "i64", CallerBuffer(drv_call, "i64"))

\* E = effective_nproc
C30_E == effective_nproc(drv_factory)

\* C30: when the caller's unweighted accumulator holds k entries in
\* spatial bin s at the start of calc_vsf_props_parallel_ and the run uses
\* E = effective_nproc workers, every resulting count is E times the initial
\* count plus the number of newly enumerated pairs counted there; the result
\* is "initial state plus new pairs" only when the accumulator was empty or
\* E = 1
C30_InitialContentReplicated ==
  C30_Applies =>
    /\ \A c \in DOMAIN drv_out_i64_vals :
         drv_out_i64_vals[c] = C30_E * C30_InitialI64[c] + C9_SerialI64[c]
    /\ (\A c \in DOMAIN drv_out_i64_vals :
          drv_out_i64_vals[c] = C30_InitialI64[c] + C9_SerialI64[c])
         => \/ C30_E = 1
            \/ \A c \in DOMAIN drv_out_i64_vals : C30_InitialI64[c] = 0

\* two or more workers ran on an accumulator that held two entries, new
\* pairs were counted, and the initial entries were counted once per worker
C30_Witness ==
  /\ C30_Applies
  /\ C30_E >= 2
  /\ \E c \in DOMAIN drv_out_i64_vals :
       /\ C30_InitialI64[c] = MaxInitialEntries
       /\ C9_SerialI64[c] > 0
       /\ drv_out_i64_vals[c] = C30_E * MaxInitialEntries + C9_SerialI64[c]

====
